---- MODULE Spec2Model ----
(***************************************************************************)
(* Model of the Swagger/OpenAPI document resolver of ApiFramework          *)
(* (src/ai/util/swagger_parser.py): loading and validation of a document,  *)
(* its normalisation, the resolution of its `$ref` references, the         *)
(* extraction of the operation summaries and the synthesis of examples;    *)
(* and of the plugin registry (src/common/plugin_system.py) and the HTTP   *)
(* client (src/common/client.py) of the framework.                         *)
(*                                                                         *)
(* Python values.  A dict is a function whose domain is a set of strings.  *)
(* A value that is not a dict is a function on the reserved key "#py":     *)
(* PyNone (falsy), PyInt (a nonzero number, truthy, not a container),      *)
(* PyNum (a number with its value), PyStr (a str with its characters) and  *)
(* PyList (a list with its elements).  By key, the values                  *)
(* of `$ref` and `$recursiveRef` are reference strings, modelled as the    *)
(* sequence of their "/"-separated segments ("" is the empty sequence), or *)
(* NonStringRef, a truthy value that is not a string;                      *)
(* the values of `type`, `description`, `swagger`, `openapi` are strings;  *)
(* `parameters`, `tags`, `examples` and `enum` hold lists (sequences);     *)
(* every other key holds a dict or a non-dict value.                       *)
(* A dict is iterated in document order, which is the order of KeyOrder.   *)
(***************************************************************************)
EXTENDS Integers, Sequences, FiniteSets, TLC

VARIABLES
    heap,        \* the two document objects: heap.doc is the caller's, heap.copy the deep copy
    apiObj,      \* which object the local `api` of _resolve_references names
    pc,          \* control state of the pipeline
    definitions, \* the local `definitions` of _resolve_references
    plan,        \* the _resolve_ref call sites still to be visited by the traversal
    escaped,     \* whether the traversal ends with an error reaching line 178
    stack,       \* the call stack of _resolve_ref
    returned,    \* which object _resolve_references returned
    doc0,        \* history: the caller's document when _resolve_references was called
    normCount,   \* history: completed _normalize_swagger_document calls
    norm1,       \* history: the document after the first normalisation
    log,         \* history: the nested _resolve_ref calls made and the values they returned
    visited,     \* history: the call sites whose schema was assigned
    file,        \* what json.loads and yaml.safe_load make of the file's text
    error,       \* what parse_swagger_doc raised: "format", "schema", or "unexpected" (a TypeError or AttributeError)
    genPc,       \* control state of the caller of _generate_example
    genSchema,   \* the `schema` argument of the top-level _generate_example call
    genDefinitions, \* the `definitions` argument of _generate_example
    genStack,    \* the call stack of _generate_example
    processed_refs, \* the set `processed_refs` of the running top-level call
    genResult,   \* what the last top-level _generate_example call returned
    genFirst,    \* history: what the first top-level call returned
    genCalls,    \* history: top-level _generate_example calls started
    genLog,      \* history: the references answered by the marker of line 565
    paths_info,  \* what extract_paths returned
    plugins,     \* PluginManager.plugins: the plugin object registered under a name
    plugin_configs, \* PluginManager.plugin_configs: the configuration kept under a name
    plugins_by_type, \* PluginManager.plugins_by_type: the list of plugin objects of a type
    hook_plugins, \* PluginManager.hook_plugins: the list of plugin objects of a hook
    enabled,     \* the attribute `enabled` of every plugin object
    executed,    \* the hook of the last execute_hook call and the plugin objects it ran
    registrations, \* history: completed register_plugin calls
    clientPc,    \* where RequestsClient.send is: "idle", "loop", "returned" or "raised"
    retry_count, \* RequestsClient.retry_count
    attempt,     \* the loop variable `attempt` of send
    resp,        \* RequestsClient.resp: the send and the attempt the response came from
    trace,       \* history: what the running or last send did, in order
    retry0,      \* history: retry_count when the running or last send started
    sends,       \* history: send calls started
    config_cache, \* ConfigManager._config_cache
    environ,     \* os.environ: the text of every environment variable that is set
    config_files, \* what load_yaml_file makes of every file <section>.yml of the config directory
    config_set,  \* history: the cache keys written by set_config since the cache was last cleared
    configCall,  \* history: the last get_config call and what it returned
    auth_cache,  \* AuthManager._auth_cache
    now,         \* datetime.now()
    authCall,    \* history: the last AuthManager call and what it returned
    authPrev,    \* history: the AuthManager call before the last one
    authCalls    \* history: completed AuthManager calls

resolverVars == <<heap, apiObj, pc, definitions, plan, escaped, stack, returned,
                  doc0, normCount, norm1, log, visited>>
parseVars == <<file, error>>
genVars == <<genPc, genSchema, genDefinitions, genStack, processed_refs,
             genResult, genFirst, genCalls, genLog>>
extractVars == <<paths_info>>

swaggerVars == <<resolverVars, parseVars, genVars, extractVars>>
pluginVars == <<plugins, plugin_configs, plugins_by_type, hook_plugins, enabled,
                executed, registrations>>
clientVars == <<clientPc, retry_count, attempt, resp, trace, retry0, sends>>
configVars == <<config_cache, environ, config_files, config_set, configCall>>
authVars == <<auth_cache, now, authCall, authPrev, authCalls>>
serviceVars == <<configVars, authVars>>
frameworkVars == <<pluginVars, clientVars, serviceVars>>

vars == <<swaggerVars, frameworkVars>>

----------------------------------------------------------------------------
(* Bounds *)

\* frames of _resolve_ref the model follows; over the documents below a call
\* that ends needs at most three, so the bound cuts only calls that repeat
MaxDepth == 4
\* times the model normalises one document
MaxNormalize == 2
\* frames of _generate_example the model follows; over the schemas below a
\* call needs at most nine
MaxGenDepth == 10
\* top-level _generate_example calls made with the same arguments
MaxCalls == 2
\* register_plugin calls made on one PluginManager
MaxRegistrations == 3
\* the largest retry count set_retry is called with
MaxRetry == 2
\* send calls made on one RequestsClient
MaxSends == 2
\* units of time that pass
MaxTime == 1
\* calls made on the AuthManager
MaxAuthCalls == 3

----------------------------------------------------------------------------
(* Python values *)

EmptyMap == [k \in {} |-> k]
PyNone == ("#py" :> "None")
PyInt == ("#py" :> "int")

PyNum(kind, n) == ("#py" :> kind) @@ ("#n" :> n)
PyStr(chars) == ("#py" :> "str") @@ ("#chars" :> chars)
PyList(elems) == ("#py" :> "list") @@ ("#elems" :> elems)

IsMapping(v) == "#py" \notin DOMAIN v
IsPyStr(v) == ~IsMapping(v) /\ v["#py"] = "str"
IsPyList(v) == ~IsMapping(v) /\ v["#py"] = "list"

\* the truth value of a Python value: an empty container, None and zero are false
Truthy(v) ==
    IF IsMapping(v) THEN DOMAIN v # {}
    ELSE IF IsPyStr(v) THEN v["#chars"] # <<>>
    ELSE IF IsPyList(v) THEN v["#elems"] # <<>>
    ELSE IF v["#py"] = "None" THEN FALSE
    ELSE IF "#n" \in DOMAIN v THEN v["#n"] # 0
    ELSE TRUE
Has(v, k) == k \in DOMAIN v
Put(m, k, v) == [x \in (DOMAIN m) \cup {k} |-> IF x = k THEN v ELSE m[x]]
Del(m, k) == [x \in (DOMAIN m) \ {k} |-> m[x]]

KeyOrder == <<"/a", "/b", "/items", "get", "post", "200", "404", "m1", "m2", "application/json",
              "p", "q", "id", "name">>
METHODS == <<"get", "post", "put", "delete", "patch", "options", "head">>
Keys(m) == SelectSeq(KeyOrder, LAMBDA k : k \in DOMAIN m)

\* the characters of the two version keys
CharsOf(key) ==
    IF key = "swagger" THEN <<"s", "w", "a", "g", "g", "e", "r">>
    ELSE <<"o", "p", "e", "n", "a", "p", "i">>

\* pat is a substring of chars
Occurs(pat, chars) ==
    \E i \in 1..(Len(chars) - Len(pat) + 1) : SubSeq(chars, i, i + Len(pat) - 1) = pat

\* Python's `key in v` for a version key: a key of a dict, an element of a
\* list, a substring of a str; a value that is no container raises
PyIn(key, v) ==
    IF IsMapping(v) THEN (IF key \in DOMAIN v THEN "yes" ELSE "no")
    ELSE IF IsPyStr(v) THEN (IF Occurs(CharsOf(key), v["#chars"]) THEN "yes" ELSE "no")
    ELSE IF IsPyList(v)
    THEN (IF \E i \in 1..Len(v["#elems"]) : v["#elems"][i] = PyStr(CharsOf(key))
          THEN "yes" ELSE "no")
    ELSE "raise"

\* The four literals below stand for the source's Chinese strings (lines 97, 222,
\* 210, 249), which differ pairwise as these do.
DefaultTag == "default-tag"
SelfPlaceholder == ("type" :> "object") @@ ("description" :> "self-reference object")
RecursivePlaceholder == ("type" :> "object") @@ ("description" :> "recursive-reference object")
FailPlaceholder_empty == EmptyMap

\* line 249
FailPlaceholder == ("type" :> "object") @@ ("description" :> "reference resolution failed")

\* a `$ref` that is a number: truthy, without a split method
NonStringRef == <<"#py", "int">>

IsString(ref) == ref # NonStringRef

\* ref.split('/')[-1]
RefName(ref) == ref[Len(ref)]

\* copy.deepcopy: an equal value ...
DeepCopy(v) == v

DeepCopyObj_alias(obj) == obj

\* ... held by a new object
DeepCopyObj(obj) == "copy"

UnknownRefResult_placeholder == FailPlaceholder

\* line 204
UnknownRefResult == EmptyMap

IsSelfReference_never(prop_ref, ref) == FALSE

\* lines 221, 234
IsSelfReference(prop_ref, ref) == prop_ref = ref

ReturnedObject_api(error_escaped, api_obj) == api_obj

\* lines 177, 181
ReturnedObject(error_escaped, api_obj) == IF error_escaped THEN "doc" ELSE api_obj

----------------------------------------------------------------------------
(* _normalize_swagger_document: the document is changed in place; `ok` is   *)
(* FALSE when the call raises, and `val` is then the document as the       *)
(* exception leaves it.                                                    *)

Default(m, k, v) == IF Has(m, k) THEN m ELSE Put(m, k, v)

DefaultOperationTag_always(tags) == Append(tags, DefaultTag)

\* lines 96-97
DefaultOperationTag(tags) == IF Len(tags) = 0 THEN Append(tags, DefaultTag) ELSE tags

NormalizeOperation_untagged(operation) ==
    Default(Default(operation, "responses", EmptyMap), "parameters", <<>>)

\* lines 88-97
NormalizeOperation(operation) ==
    LET o1 == Default(operation, "responses", EmptyMap)
        o2 == Default(o1, "parameters", <<>>)
        o3 == Default(o2, "tags", <<>>)
    IN  [o3 EXCEPT !["tags"] = DefaultOperationTag(o3["tags"])]

RECURSIVE NormalizePathItem(_, _)
NormalizePathItem(path_item, methods) ==
    IF methods = <<>> THEN [val |-> path_item, ok |-> TRUE]
    ELSE IF ~IsMapping(path_item) THEN [val |-> path_item, ok |-> FALSE]
    ELSE LET method == Head(methods) IN
         IF ~Has(path_item, method) THEN NormalizePathItem(path_item, Tail(methods))
         ELSE IF ~IsMapping(path_item[method]) THEN [val |-> path_item, ok |-> FALSE]
         ELSE NormalizePathItem(
                  [path_item EXCEPT ![method] = NormalizeOperation(path_item[method])],
                  Tail(methods))

RECURSIVE NormalizePaths(_, _)
NormalizePaths(paths, keys) ==
    IF keys = <<>> THEN [val |-> paths, ok |-> TRUE]
    ELSE LET path == Head(keys) IN
         IF ~Truthy(paths[path]) THEN NormalizePaths(paths, Tail(keys))
         ELSE LET r == NormalizePathItem(paths[path], METHODS) IN
              IF r.ok THEN NormalizePaths([paths EXCEPT ![path] = r.val], Tail(keys))
              ELSE [val |-> [paths EXCEPT ![path] = r.val], ok |-> FALSE]

EnsureComponents(doc) ==
    IF Has(doc, "openapi") /\ ~Has(doc, "components")
    THEN Put(doc, "components", ("schemas" :> EmptyMap))
    ELSE doc

EnsureDefinitions(doc) ==
    IF Has(doc, "swagger") /\ ~Has(doc, "definitions")
    THEN Put(doc, "definitions", EmptyMap)
    ELSE doc

\* lines 61-97; a str or a list has no item assignment by key and no
\* subscript by key, so the call raises at line 62, 66, 70, 74 or 77
_normalize_swagger_document(doc) ==
    IF ~IsMapping(doc) THEN [val |-> doc, ok |-> FALSE]
    ELSE
    LET d1 == Default(doc, "paths", EmptyMap)
        d2 == Default(d1, "tags", <<>>)
        d3 == EnsureComponents(d2)
        d4 == EnsureDefinitions(d3)
    IN  IF ~IsMapping(d4["paths"]) THEN [val |-> d4, ok |-> FALSE]
        ELSE LET r == NormalizePaths(d4["paths"], Keys(d4["paths"]))
             IN  [val |-> [d4 EXCEPT !["paths"] = r.val], ok |-> r.ok]

----------------------------------------------------------------------------
(* _resolve_references: the traversal.  _resolve_ref never raises and the  *)
(* traversal assigns only the `schema` it has just tested, so the sequence *)
(* of _resolve_ref calls is determined by the copied document: the         *)
(* operators below follow the loops and the try blocks and give the call   *)
(* sites in the order the loops reach them.                                *)

\* the test `x and 'schema' in x and '$ref' in x['schema']` of lines 138, 149, 163, 168
HasRefSchema(x) ==
    IF ~Truthy(x) THEN "no"
    ELSE IF ~IsMapping(x) THEN "raise"
    ELSE IF ~Has(x, "schema") THEN "no"
    ELSE IF ~IsMapping(x["schema"]) THEN "raise"
    ELSE IF Has(x["schema"], "$ref") THEN "yes" ELSE "no"

Site(kind, path, method, idx, status, media) ==
    [kind |-> kind, path |-> path, method |-> method, idx |-> idx,
     status |-> status, media |-> media]

\* lines 135-143: one try per parameter
ParamSites(operation, path, method) ==
    LET params == operation["parameters"]
        idxs == SelectSeq([i \in 1..Len(params) |-> i],
                          LAMBDA i : HasRefSchema(params[i]) = "yes")
    IN  [j \in 1..Len(idxs) |-> Site("param", path, method, idxs[j], "", "")]

\* lines 146-154: one try per media type; `raised` when the test of line 146
\* or the .items() of line 147 raises
BodySites(operation, is_openapi3, path, method) ==
    IF ~is_openapi3 \/ ~Has(operation, "requestBody")
    THEN [sites |-> <<>>, raised |-> FALSE]
    ELSE LET rb == operation["requestBody"] IN
         IF ~IsMapping(rb) THEN [sites |-> <<>>, raised |-> TRUE]
         ELSE IF ~Has(rb, "content") THEN [sites |-> <<>>, raised |-> FALSE]
         ELSE IF ~IsMapping(rb["content"]) THEN [sites |-> <<>>, raised |-> TRUE]
         ELSE LET ks == SelectSeq(Keys(rb["content"]),
                                  LAMBDA mt : HasRefSchema(rb["content"][mt]) = "yes")
              IN  [sites |-> [j \in 1..Len(ks) |-> Site("body", path, method, 0, "", ks[j])],
                   raised |-> FALSE]

\* lines 162-166: the media types of one response share the try of line 159
RECURSIVE MediaSites(_, _, _, _, _)
MediaSites(content, keys, path, method, status) ==
    IF keys = <<>> THEN <<>>
    ELSE LET h == HasRefSchema(content[Head(keys)]) IN
         IF h = "raise" THEN <<>>
         ELSE (IF h = "yes" THEN <<Site("resp3", path, method, 0, status, Head(keys))>>
               ELSE <<>>)
              \o MediaSites(content, Tail(keys), path, method, status)

\* lines 159-173
ResponseSites(response, is_openapi3, path, method, status) ==
    IF is_openapi3 /\ Truthy(response) /\ ~IsMapping(response) THEN <<>>
    ELSE IF is_openapi3 /\ Truthy(response) /\ Has(response, "content")
    THEN IF ~IsMapping(response["content"]) THEN <<>>
         ELSE MediaSites(response["content"], Keys(response["content"]), path, method, status)
    ELSE IF HasRefSchema(response) = "yes"
         THEN <<Site("resp2", path, method, 0, status, "")>>
         ELSE <<>>

RECURSIVE ResponsesSites(_, _, _, _, _)
ResponsesSites(responses, keys, is_openapi3, path, method) ==
    IF keys = <<>> THEN <<>>
    ELSE ResponseSites(responses[Head(keys)], is_openapi3, path, method, Head(keys))
         \o ResponsesSites(responses, Tail(keys), is_openapi3, path, method)

\* lines 133-175: an error outside the inner try blocks ends the operation
OperationSites(operation, is_openapi3, path, method) ==
    IF ~IsMapping(operation) THEN <<>>
    ELSE LET ps == IF Has(operation, "parameters")
                   THEN ParamSites(operation, path, method) ELSE <<>>
             b == BodySites(operation, is_openapi3, path, method)
             rs == IF ~Has(operation, "responses") \/ ~IsMapping(operation["responses"])
                   THEN <<>>
                   ELSE ResponsesSites(operation["responses"], Keys(operation["responses"]),
                                       is_openapi3, path, method)
         IN  ps \o b.sites \o (IF b.raised THEN <<>> ELSE rs)

\* lines 125-131: `method not in path_item` is outside every inner try
RECURSIVE PathItemSites(_, _, _, _)
PathItemSites(path_item, methods, is_openapi3, path) ==
    IF methods = <<>> THEN [sites |-> <<>>, raised |-> FALSE]
    ELSE IF ~IsMapping(path_item) THEN [sites |-> <<>>, raised |-> TRUE]
    ELSE LET method == Head(methods)
             rest == PathItemSites(path_item, Tail(methods), is_openapi3, path)
         IN  IF ~Has(path_item, method) \/ ~Truthy(path_item[method]) THEN rest
             ELSE [sites |-> OperationSites(path_item[method], is_openapi3, path, method)
                             \o rest.sites,
                   raised |-> rest.raised]

\* lines 121-123
RECURSIVE PathsSites(_, _, _)
PathsSites(paths, keys, is_openapi3) ==
    IF keys = <<>> THEN [sites |-> <<>>, raised |-> FALSE]
    ELSE IF ~Truthy(paths[Head(keys)]) THEN PathsSites(paths, Tail(keys), is_openapi3)
    ELSE LET here == PathItemSites(paths[Head(keys)], METHODS, is_openapi3, Head(keys)) IN
         IF here.raised THEN here
         ELSE LET rest == PathsSites(paths, Tail(keys), is_openapi3)
              IN  [sites |-> here.sites \o rest.sites, raised |-> rest.raised]

\* lines 117-175
Traversal(api) ==
    IF ~Has(api, "paths") THEN [sites |-> <<>>, raised |-> FALSE]
    ELSE IF ~IsMapping(api["paths"]) THEN [sites |-> <<>>, raised |-> TRUE]
    ELSE PathsSites(api["paths"], Keys(api["paths"]), Has(api, "openapi"))

ChooseDefinitions_components(api) ==
    IF Has(api, "components")
    THEN IF ~IsMapping(api["components"])
         THEN [val |-> EmptyMap, raised |-> TRUE]
         ELSE [val |-> IF Has(api["components"], "schemas")
                       THEN api["components"]["schemas"] ELSE EmptyMap,
               raised |-> FALSE]
    ELSE [val |-> IF Has(api, "definitions") THEN api["definitions"] ELSE EmptyMap,
          raised |-> FALSE]

\* lines 113-115
ChooseDefinitions(api) ==
    LET d == IF Has(api, "definitions") THEN api["definitions"] ELSE EmptyMap IN
    IF ~Truthy(d) /\ Has(api, "components")
    THEN IF ~IsMapping(api["components"]) THEN [val |-> d, raised |-> TRUE]
         ELSE [val |-> IF Has(api["components"], "schemas")
                       THEN api["components"]["schemas"] ELSE EmptyMap,
               raised |-> FALSE]
    ELSE [val |-> d, raised |-> FALSE]

\* the dict whose `schema` a call site tests and assigns
SiteNode(api, s) ==
    LET operation == api["paths"][s.path][s.method] IN
    CASE s.kind = "param" -> operation["parameters"][s.idx]
      [] s.kind = "body"  -> operation["requestBody"]["content"][s.media]
      [] s.kind = "resp3" -> operation["responses"][s.status]["content"][s.media]
      [] s.kind = "resp2" -> operation["responses"][s.status]

\* lines 139, 150, 164, 169: the assignment of the resolved schema
SiteAssign(api, s, v) ==
    CASE s.kind = "param" ->
           [api EXCEPT !["paths"][s.path][s.method]["parameters"][s.idx]["schema"] = v]
      [] s.kind = "body" ->
           [api EXCEPT !["paths"][s.path][s.method]["requestBody"]["content"][s.media]["schema"] = v]
      [] s.kind = "resp3" ->
           [api EXCEPT !["paths"][s.path][s.method]["responses"][s.status]["content"][s.media]["schema"] = v]
      [] s.kind = "resp2" ->
           [api EXCEPT !["paths"][s.path][s.method]["responses"][s.status]["schema"] = v]

----------------------------------------------------------------------------
(* _resolve_ref as a call stack.  A frame holds the reference being        *)
(* resolved, the local `result`, the property names the loop of line 218   *)
(* has still to visit, and whether the frame waits for a nested call.      *)

Frame(ref) == [ref |-> ref, phase |-> "enter", result |-> EmptyMap, todo |-> <<>>, wait |-> ""]

Top == stack[Len(stack)]

ReplaceTop(f) == [stack EXCEPT ![Len(stack)] = f]

\* the return of the top frame with value val: to the frame that called it
\* (lines 225, 237) or to the call site of the traversal (lines 139, 150, 164, 169)
Deliver(val) ==
    /\ log' = log \cup {[caller |-> IF Len(stack) = 1 THEN <<>> ELSE stack[Len(stack) - 1].ref,
                         callee |-> Top.ref, val |-> val, depth |-> Len(stack)]}
    /\ IF Len(stack) = 1
       THEN /\ heap' = [heap EXCEPT ![apiObj] = SiteAssign(heap[apiObj], Head(plan), val)]
            /\ plan' = Tail(plan)
            /\ visited' = visited \cup {Head(plan)}
            /\ stack' = <<>>
       ELSE LET parent == stack[Len(stack) - 1]
                resumed == IF parent.wait = "items"
                           THEN [parent EXCEPT !.result["items"] = val,
                                               !.phase = "exit", !.wait = ""]
                           ELSE [parent EXCEPT !.result["properties"][Head(parent.todo)] = val,
                                               !.todo = Tail(parent.todo), !.wait = ""]
            IN  /\ stack' = Append(SubSeq(stack, 1, Len(stack) - 2), resumed)
                /\ UNCHANGED <<heap, plan, visited>>

\* lines 194-209: the call of _resolve_ref with `ref` gets to the copy of
\* line 213
ReachesCopy(ref) ==
    /\ ref # <<>> /\ IsString(ref)
    /\ IsMapping(definitions)
    /\ RefName(ref) \in DOMAIN definitions
    /\ IsMapping(definitions[RefName(ref)])
    /\ ~(/\ Has(definitions[RefName(ref)], "$recursiveRef")
         /\ definitions[RefName(ref)]["$recursiveRef"] = ref)

Marked_alias(defs, name, ref) == [defs EXCEPT ![name] = Put(defs[name], "$recursiveRef", ref)]

\* lines 213-214: the definitions map after the mark is written.  The mark
\* is written to `result`, the deep copy of the definition
Marked(defs, name, ref) == defs

\* lines 243-244
Unmarked(result) ==
    IF Has(result, "$recursiveRef") THEN Del(result, "$recursiveRef") ELSE result

\* lines 193-218: the tests before the loops, the copy and the mark
EnterRef ==
    /\ pc = "walk" /\ stack # <<>> /\ Top.phase = "enter"
    /\ LET ref == Top.ref IN
       IF ref = <<>> THEN Deliver(EmptyMap)
       ELSE IF ~IsString(ref) THEN Deliver(FailPlaceholder)
       ELSE IF ~IsMapping(definitions) THEN Deliver(FailPlaceholder)
       ELSE IF RefName(ref) \notin DOMAIN definitions THEN Deliver(UnknownRefResult)
       ELSE LET definition == definitions[RefName(ref)] IN
            IF ~IsMapping(definition) THEN Deliver(FailPlaceholder)
            ELSE IF Has(definition, "$recursiveRef") /\ definition["$recursiveRef"] = ref
                 THEN Deliver(RecursivePlaceholder)
            ELSE LET result == Put(DeepCopy(definition), "$recursiveRef", ref) IN
                 IF Has(result, "properties") /\ ~IsMapping(result["properties"])
                 THEN Deliver(FailPlaceholder)
                 ELSE /\ stack' = ReplaceTop([Top EXCEPT
                              !.phase = "body", !.result = result,
                              !.todo = IF Has(result, "properties")
                                       THEN Keys(result["properties"]) ELSE <<>>])
                      /\ UNCHANGED <<heap, plan, visited, log>>
    /\ definitions' = IF ReachesCopy(Top.ref)
                      THEN Marked(definitions, RefName(Top.ref), Top.ref)
                      ELSE definitions
    /\ UNCHANGED <<apiObj, pc, escaped, returned, doc0, normCount, norm1>>
    /\ UNCHANGED <<parseVars, genVars, extractVars>>
    /\ UNCHANGED frameworkVars

\* lines 218-228: one iteration of the loop over the properties
ResolveProperty ==
    /\ pc = "walk" /\ stack # <<>>
    /\ Top.phase = "body" /\ Top.wait = "" /\ Top.todo # <<>>
    /\ LET prop_name == Head(Top.todo)
           prop == Top.result["properties"][prop_name]
       IN  IF ~Truthy(prop)
           THEN /\ stack' = ReplaceTop([Top EXCEPT !.todo = Tail(Top.todo)])
                /\ UNCHANGED <<heap, plan, visited, log>>
           ELSE IF ~IsMapping(prop) THEN Deliver(FailPlaceholder)
           ELSE IF ~Has(prop, "$ref")
           THEN /\ stack' = ReplaceTop([Top EXCEPT !.todo = Tail(Top.todo)])
                /\ UNCHANGED <<heap, plan, visited, log>>
           ELSE IF IsSelfReference(prop["$ref"], Top.ref)
           THEN /\ stack' = ReplaceTop([Top EXCEPT
                                !.result["properties"][prop_name] = SelfPlaceholder,
                                !.todo = Tail(Top.todo)])
                /\ UNCHANGED <<heap, plan, visited, log>>
           ELSE /\ Len(stack) < MaxDepth
                /\ stack' = Append(ReplaceTop([Top EXCEPT !.wait = "prop"]), Frame(prop["$ref"]))
                /\ UNCHANGED <<heap, plan, visited, log>>
    /\ UNCHANGED <<apiObj, pc, definitions, escaped, returned, doc0, normCount, norm1>>
    /\ UNCHANGED <<parseVars, genVars, extractVars>>
    /\ UNCHANGED frameworkVars

\* lines 231-240: the items of the definition
ResolveItems ==
    /\ pc = "walk" /\ stack # <<>>
    /\ Top.phase = "body" /\ Top.wait = "" /\ Top.todo = <<>>
    /\ IF ~Has(Top.result, "items")
       THEN /\ stack' = ReplaceTop([Top EXCEPT !.phase = "exit"])
            /\ UNCHANGED <<heap, plan, visited, log>>
       ELSE LET items == Top.result["items"] IN
            IF ~IsMapping(items) THEN Deliver(FailPlaceholder)
            ELSE IF ~Has(items, "$ref")
            THEN /\ stack' = ReplaceTop([Top EXCEPT !.phase = "exit"])
                 /\ UNCHANGED <<heap, plan, visited, log>>
            ELSE IF IsSelfReference(items["$ref"], Top.ref)
            THEN /\ stack' = ReplaceTop([Top EXCEPT !.result["items"] = SelfPlaceholder,
                                                    !.phase = "exit"])
                 /\ UNCHANGED <<heap, plan, visited, log>>
            ELSE /\ Len(stack) < MaxDepth
                 /\ stack' = Append(ReplaceTop([Top EXCEPT !.wait = "items"]), Frame(items["$ref"]))
                 /\ UNCHANGED <<heap, plan, visited, log>>
    /\ UNCHANGED <<apiObj, pc, definitions, escaped, returned, doc0, normCount, norm1>>
    /\ UNCHANGED <<parseVars, genVars, extractVars>>
    /\ UNCHANGED frameworkVars

\* lines 242-246: the mark is removed and the result returned
ReturnResult ==
    /\ pc = "walk" /\ stack # <<>> /\ Top.phase = "exit"
    /\ Deliver(Unmarked(Top.result))
    /\ UNCHANGED <<apiObj, pc, definitions, escaped, returned, doc0, normCount, norm1>>
    /\ UNCHANGED <<parseVars, genVars, extractVars>>
    /\ UNCHANGED frameworkVars

----------------------------------------------------------------------------
(* The pipeline: _normalize_swagger_document and _resolve_references.      *)

\* lines 54-97, applied to the caller's document in place
Normalize ==
    /\ pc = "ready" /\ normCount < MaxNormalize
    /\ LET r == _normalize_swagger_document(heap["doc"]) IN
       /\ heap' = [heap EXCEPT !["doc"] = r.val]
       /\ pc' = IF r.ok THEN "ready" ELSE "normfail"
       /\ normCount' = IF r.ok THEN normCount + 1 ELSE normCount
       /\ norm1' = IF r.ok /\ normCount = 0 THEN r.val ELSE norm1
    /\ UNCHANGED <<apiObj, definitions, plan, escaped, stack, returned, doc0, log, visited>>
    /\ UNCHANGED <<parseVars, genVars, extractVars>>
    /\ UNCHANGED frameworkVars

\* lines 108-117: the copy and the choice of the definitions map
ResolveBegin ==
    /\ pc = "ready"
    /\ LET obj == DeepCopyObj("doc")
           api == DeepCopy(heap["doc"])
           d == ChooseDefinitions(api)
           t == Traversal(api)
       IN  /\ heap' = [heap EXCEPT ![obj] = api]
           /\ apiObj' = obj
           /\ definitions' = d.val
           /\ plan' = IF d.raised THEN <<>> ELSE t.sites
           /\ escaped' = (d.raised \/ t.raised)
    /\ doc0' = heap["doc"]
    /\ pc' = "walk"
    /\ UNCHANGED <<stack, returned, normCount, norm1, log, visited>>
    /\ UNCHANGED <<parseVars, genVars, extractVars>>
    /\ UNCHANGED frameworkVars

\* lines 139, 150, 164, 169: the call of _resolve_ref for the next reference
CallSite ==
    /\ pc = "walk" /\ stack = <<>> /\ plan # <<>>
    /\ stack' = <<Frame(SiteNode(heap[apiObj], Head(plan))["schema"]["$ref"])>>
    /\ UNCHANGED <<heap, apiObj, pc, definitions, plan, escaped, returned,
                   doc0, normCount, norm1, log, visited>>
    /\ UNCHANGED <<parseVars, genVars, extractVars>>
    /\ UNCHANGED frameworkVars

\* lines 177-181: the copy is returned, or the caller's document after an error
ResolveEnd ==
    /\ pc = "walk" /\ stack = <<>> /\ plan = <<>>
    /\ returned' = ReturnedObject(escaped, apiObj)
    /\ pc' = "done"
    /\ UNCHANGED <<heap, apiObj, definitions, plan, escaped, stack,
                   doc0, normCount, norm1, log, visited>>
    /\ UNCHANGED <<parseVars, genVars, extractVars>>
    /\ UNCHANGED frameworkVars

\* the caller changes the document it was given back
CallerMutates ==
    /\ pc = "done" /\ ~escaped
    /\ heap' = [heap EXCEPT ![returned] = Put(heap[returned], "x-caller", PyInt)]
    /\ pc' = "mutated"
    /\ UNCHANGED <<apiObj, definitions, plan, escaped, stack, returned,
                   doc0, normCount, norm1, log, visited>>
    /\ UNCHANGED <<parseVars, genVars, extractVars>>
    /\ UNCHANGED frameworkVars

----------------------------------------------------------------------------
(* _generate_example as a call stack.  A frame holds its `schema`, the     *)
(* local `result`, the property names the loop of line 580 has still to    *)
(* visit, and where it stands: at its start ("enter"), in the loop over    *)
(* the properties ("props"), in the call for a referenced definition       *)
(* ("ref") or for the items of an array ("item"), or at its return         *)
(* ("exit").  An exception anywhere in a frame makes that frame return     *)
(* None (lines 641-643).                                                   *)

GenFrame(schema) == [schema |-> schema, phase |-> "enter", result |-> PyNone, todo |-> <<>>]

GenTop == genStack[Len(genStack)]

GenReplaceTop(f) == [genStack EXCEPT ![Len(genStack)] = f]

\* the references whose definition is being expanded by a frame of the stack
Expanding == {genStack[i].schema["$ref"] : i \in {j \in 1..Len(genStack) : genStack[j].phase = "ref"}}

\* the literals of lines 611, 613, 614
DateTimeChars == <<"2", "0", "2", "3", "-", "0", "1", "-", "0", "1", "T",
                   "0", "0", ":", "0", "0", ":", "0", "0", "Z">>
DateChars == <<"2", "0", "2", "3", "-", "0", "1", "-", "0", "1">>
StringChars == <<"s", "t", "r", "i", "n", "g">>

Literal_none(node) == [found |-> FALSE, val |-> PyNone]

\* lines 582-585, 594-597, 604-607, 618-621, 634-637: the first of `examples`
\* when that list is not empty, else `example` when the key is there
Literal(node) ==
    IF Has(node, "examples") /\ node["examples"] # <<>>
    THEN [found |-> TRUE, val |-> node["examples"][1]]
    ELSE IF Has(node, "example") THEN [found |-> TRUE, val |-> node["example"]]
    ELSE [found |-> FALSE, val |-> PyNone]

\* schema.get('format')
Format(schema) == IF Has(schema, "format") THEN schema["format"] ELSE "None"

StringExample_format_first(schema) ==
    IF Literal(schema).found THEN Literal(schema).val
    ELSE IF Format(schema) = "date-time" THEN PyStr(DateTimeChars)
    ELSE IF Format(schema) = "date" THEN PyStr(DateChars)
    ELSE IF Has(schema, "enum") /\ schema["enum"] # <<>> THEN schema["enum"][1]
    ELSE PyStr(StringChars)

\* lines 604-614
StringExample(schema) ==
    IF Literal(schema).found THEN Literal(schema).val
    ELSE IF Has(schema, "enum") /\ schema["enum"] # <<>> THEN schema["enum"][1]
    ELSE IF Format(schema) = "date-time" THEN PyStr(DateTimeChars)
    ELSE IF Format(schema) = "date" THEN PyStr(DateChars)
    ELSE PyStr(StringChars)

NumberExample_by_type(schema) ==
    IF Literal(schema).found THEN Literal(schema).val
    ELSE IF Format(schema) \in {"int32", "int64"} THEN PyNum("int", 0)
    ELSE IF Format(schema) \in {"float", "double"} THEN PyNum("float", 0)
    ELSE IF schema["type"] = "number" THEN PyNum("float", 0)
    ELSE PyNum("int", 0)

\* lines 618-630
NumberExample(schema) ==
    IF Literal(schema).found THEN Literal(schema).val
    ELSE IF Format(schema) \in {"int32", "int64"} THEN PyNum("int", 0)
    ELSE IF Format(schema) \in {"float", "double"} THEN PyNum("float", 0)
    ELSE PyNum("int", 0)

\* lines 634-638
BooleanExample(schema) ==
    IF Literal(schema).found THEN Literal(schema).val ELSE PyNum("bool", 0)

AlreadyProcessed_never(ref, refs) == FALSE

\* line 564
AlreadyProcessed(ref, refs) == ref \in refs

NewProcessedRefs_kept(previous) == previous

\* lines 555-556: a top-level call starts from a new empty set
NewProcessedRefs(previous) == {}

\* the value of `$ref` in the marker of line 572: ref.split('/')[-1]
NameRef(ref) == IF ref = <<>> THEN <<>> ELSE <<RefName(ref)>>

WrapItem_always(item_example) == PyList(<<item_example>>)

\* line 600: [item_example] if item_example is not None else []
WrapItem(item_example) ==
    IF item_example = PyNone THEN PyList(<<>>) ELSE PyList(<<item_example>>)

\* the return of the top frame with value val: to the caller of the top-level
\* call, or to the frame that called it (lines 571, 588, 599-600)
GenDeliver(val) ==
    IF Len(genStack) = 1
    THEN /\ genStack' = <<>>
         /\ genResult' = val
         /\ genPc' = "returned"
    ELSE LET parent == genStack[Len(genStack) - 1]
             resumed ==
                 IF parent.phase = "ref"
                 THEN [parent EXCEPT !.result = val, !.phase = "exit"]
                 ELSE IF parent.phase = "item"
                 THEN [parent EXCEPT !.result = WrapItem(val), !.phase = "exit"]
                 ELSE [parent EXCEPT !.result = Put(parent.result, Head(parent.todo), val),
                                     !.todo = Tail(parent.todo)]
         IN  /\ genStack' = Append(SubSeq(genStack, 1, Len(genStack) - 2), resumed)
             /\ UNCHANGED <<genResult, genPc>>

\* a nested call: the top frame waits in `phase` for the frame of `schema`
GenCall(phase, schema) ==
    /\ Len(genStack) < MaxGenDepth
    /\ genStack' = Append(GenReplaceTop([GenTop EXCEPT !.phase = phase]), GenFrame(schema))
    /\ UNCHANGED <<genResult, genPc>>

\* lines 558-572: the reference of the schema
GenerateRef(ref) ==
    IF AlreadyProcessed(ref, processed_refs)
    THEN /\ GenDeliver("$ref" :> ref)
         /\ genLog' = genLog \cup {[ref |-> ref, chain |-> Expanding]}
         /\ UNCHANGED processed_refs
    ELSE /\ processed_refs' = processed_refs \cup {ref}
         /\ UNCHANGED genLog
         /\ IF ~IsString(ref) \/ ~IsMapping(genDefinitions) THEN GenDeliver(PyNone)
            ELSE IF ref # <<>> /\ RefName(ref) \in DOMAIN genDefinitions
            THEN GenCall("ref", genDefinitions[RefName(ref)])
            ELSE GenDeliver("$ref" :> NameRef(ref))

\* lines 574-640: the schema by its type
GenerateTyped(schema) ==
    LET schema_type == IF Has(schema, "type") THEN schema["type"] ELSE "object" IN
    IF schema_type = "object"
    THEN IF Has(schema, "properties") /\ ~IsMapping(schema["properties"])
         THEN GenDeliver(PyNone)
         ELSE /\ genStack' = GenReplaceTop([GenTop EXCEPT
                      !.phase = "props", !.result = EmptyMap,
                      !.todo = IF Has(schema, "properties")
                               THEN Keys(schema["properties"]) ELSE <<>>])
              /\ UNCHANGED <<genResult, genPc>>
    ELSE IF schema_type = "array"
    THEN IF Literal(schema).found THEN GenDeliver(Literal(schema).val)
         ELSE GenCall("item", IF Has(schema, "items") THEN schema["items"] ELSE EmptyMap)
    ELSE IF schema_type = "string" THEN GenDeliver(StringExample(schema))
    ELSE IF schema_type \in {"integer", "number"} THEN GenDeliver(NumberExample(schema))
    ELSE IF schema_type = "boolean" THEN GenDeliver(BooleanExample(schema))
    ELSE GenDeliver(PyNone)

\* lines 555-640: a frame from its start to its first nested call, to the
\* loop over its properties, or to its return
GenerateEnter ==
    /\ genPc = "running" /\ genStack # <<>> /\ GenTop.phase = "enter"
    /\ LET schema == GenTop.schema IN
       IF ~Truthy(schema) \/ ~IsMapping(schema)
       THEN GenDeliver(PyNone) /\ UNCHANGED <<processed_refs, genLog>>
       ELSE IF Has(schema, "$ref") THEN GenerateRef(schema["$ref"])
       ELSE GenerateTyped(schema) /\ UNCHANGED <<processed_refs, genLog>>
    /\ UNCHANGED <<genSchema, genDefinitions, genFirst, genCalls>>
    /\ UNCHANGED <<resolverVars, parseVars, extractVars>>
    /\ UNCHANGED frameworkVars

\* lines 580-588: one iteration of the loop over the properties; a property
\* that is None or a number makes the `in` of line 582 raise
GenerateProperty ==
    /\ genPc = "running" /\ genStack # <<>>
    /\ GenTop.phase = "props" /\ GenTop.todo # <<>>
    /\ LET prop_name == Head(GenTop.todo)
           prop == GenTop.schema["properties"][prop_name]
       IN  IF ~IsMapping(prop) /\ ~IsPyStr(prop) /\ ~IsPyList(prop) THEN GenDeliver(PyNone)
           ELSE IF IsMapping(prop) /\ Literal(prop).found
           THEN /\ genStack' = GenReplaceTop([GenTop EXCEPT
                        !.result = Put(GenTop.result, prop_name, Literal(prop).val),
                        !.todo = Tail(GenTop.todo)])
                /\ UNCHANGED <<genResult, genPc>>
           ELSE GenCall("props", prop)
    /\ UNCHANGED <<genSchema, genDefinitions, processed_refs, genFirst, genCalls, genLog>>
    /\ UNCHANGED <<resolverVars, parseVars, extractVars>>
    /\ UNCHANGED frameworkVars

\* lines 571, 589, 600: the frame returns its result
GenerateReturn ==
    /\ genPc = "running" /\ genStack # <<>>
    /\ GenTop.phase = "exit" \/ (GenTop.phase = "props" /\ GenTop.todo = <<>>)
    /\ GenDeliver(GenTop.result)
    /\ UNCHANGED <<genSchema, genDefinitions, processed_refs, genFirst, genCalls, genLog>>
    /\ UNCHANGED <<resolverVars, parseVars, extractVars>>
    /\ UNCHANGED frameworkVars

\* a top-level call _generate_example(schema, definitions), made again with
\* the same arguments when the call before it has returned
GenerateCall ==
    /\ genPc \in {"idle", "returned"} /\ genCalls < MaxCalls
    /\ genStack' = <<GenFrame(genSchema)>>
    /\ processed_refs' = NewProcessedRefs(processed_refs)
    /\ genPc' = "running"
    /\ genFirst' = IF genCalls = 1 THEN genResult ELSE genFirst
    /\ genCalls' = genCalls + 1
    /\ genLog' = {}
    /\ UNCHANGED <<genSchema, genDefinitions, genResult>>
    /\ UNCHANGED <<resolverVars, parseVars, extractVars>>
    /\ UNCHANGED frameworkVars

\* print_api_info, lines 448-482: the schemas of a response an example is
\* synthesized for: its `schema`, or else the `schema` of its media types
SchemasOfResponse(response) ==
    IF ~IsMapping(response) THEN {}
    ELSE IF Has(response, "schema") THEN {response["schema"]}
    ELSE IF Has(response, "content") /\ IsMapping(response["content"])
    THEN {response["content"][mt]["schema"] :
              mt \in {m \in DOMAIN response["content"] :
                          /\ IsMapping(response["content"][m])
                          /\ Has(response["content"][m], "schema")}}
    ELSE {}

\* print_api_info, lines 442-482, over the operations of the document
ResponseSchemas(api) ==
    IF ~IsMapping(api) \/ ~Has(api, "paths") \/ ~IsMapping(api["paths"]) THEN {}
    ELSE UNION {UNION {SchemasOfResponse(api["paths"][path][method]["responses"][status]) :
                           status \in DOMAIN api["paths"][path][method]["responses"]} :
                    <<path, method>> \in
                        {pm \in (DOMAIN api["paths"]) \X {METHODS[i] : i \in 1..Len(METHODS)} :
                             /\ IsMapping(api["paths"][pm[1]])
                             /\ Has(api["paths"][pm[1]], pm[2])
                             /\ IsMapping(api["paths"][pm[1]][pm[2]])
                             /\ Has(api["paths"][pm[1]][pm[2]], "responses")
                             /\ IsMapping(api["paths"][pm[1]][pm[2]]["responses"])}}

\* print_api_info, lines 373-375 and 460, 482: the call of _generate_example
\* for the schema of a response of the document parse_swagger_doc returned
GenerateForResponse ==
    /\ pc = "done" /\ genPc = "idle"
    /\ ~ChooseDefinitions(heap[returned]).raised
    /\ \E schema \in ResponseSchemas(heap[returned]) :
           /\ IsMapping(schema) /\ Truthy(schema)
           /\ genSchema' = schema
           /\ genStack' = <<GenFrame(schema)>>
    /\ genDefinitions' = ChooseDefinitions(heap[returned]).val
    /\ processed_refs' = NewProcessedRefs(processed_refs)
    /\ genPc' = "running"
    /\ genCalls' = genCalls + 1
    /\ UNCHANGED <<genResult, genFirst, genLog>>
    /\ UNCHANGED <<resolverVars, parseVars, extractVars>>
    /\ UNCHANGED frameworkVars

----------------------------------------------------------------------------
(* extract_paths.  An error anywhere in the call makes it return the       *)
(* empty list (lines 329-331): the operators below carry `ok`, FALSE when  *)
(* a statement raises.                                                     *)

\* method.upper()
Upper(method) ==
    CASE method = "get" -> "GET"
      [] method = "post" -> "POST"
      [] method = "put" -> "PUT"
      [] method = "delete" -> "DELETE"
      [] method = "patch" -> "PATCH"
      [] method = "options" -> "OPTIONS"
      [] method = "head" -> "HEAD"

\* m.get(k, default)
Get(m, k, default) == IF Has(m, k) THEN m[k] ELSE default

\* a Python bool
PyBool(b) == PyNum("bool", IF b THEN 1 ELSE 0)

\* bool(param.get('required', False))
Required(param) == PyBool(Has(param, "required") /\ Truthy(param["required"]))

Raised == [ok |-> FALSE, val |-> EmptyMap]

\* lines 296-304: the summary of one parameter
ParameterInfo(param) ==
    IF ~IsMapping(param) THEN Raised
    ELSE LET typed == Has(param, "type") /\ param["type"] # ""
             schemed == Has(param, "schema") /\ Truthy(param["schema"])
         IN  IF ~typed /\ schemed /\ ~IsMapping(param["schema"]) THEN Raised
             ELSE [ok |-> TRUE,
                   val |-> [name |-> Get(param, "name", ""),
                            in |-> Get(param, "in", ""),
                            description |-> Get(param, "description", ""),
                            required |-> Required(param),
                            schema |-> Get(param, "schema",
                                           ("type" :> Get(param, "type", "string"))),
                            type |-> IF typed THEN param["type"]
                                     ELSE IF schemed THEN Get(param["schema"], "type", "string")
                                     ELSE "string"]]

\* line 314: the first parameter located in the body, or None
BodyParam(parameters) ==
    LET located == {i \in 1..Len(parameters) : Get(parameters[i], "in", "") = "body"} IN
    IF located = {} THEN PyNone
    ELSE parameters[CHOOSE i \in located : \A j \in located : i <= j]

\* lines 316-324
SynthesizedBody(body_param) ==
    [description |-> Get(body_param, "description", ""),
     required |-> Required(body_param),
     content |-> ("application/json" :> ("schema" :> Get(body_param, "schema", EmptyMap)))]

\* lines 281-324: the summary of one operation
PathInfo(path, method, operation, is_openapi3) ==
    IF ~IsMapping(operation) THEN Raised
    ELSE LET parameters == Get(operation, "parameters", <<>>)
             infos == [i \in 1..Len(parameters) |-> ParameterInfo(parameters[i])]
         IN  IF \E i \in 1..Len(parameters) : ~infos[i].ok THEN Raised
             ELSE [ok |-> TRUE,
                   val |-> [path |-> path,
                            method |-> Upper(method),
                            summary |-> Get(operation, "summary", ""),
                            description |-> Get(operation, "description", ""),
                            operationId |-> Get(operation, "operationId", ""),
                            parameters |-> [i \in 1..Len(parameters) |-> infos[i].val],
                            requestBody |->
                                IF is_openapi3
                                THEN Get(operation, "requestBody", PyNone)
                                ELSE IF BodyParam(parameters) = PyNone THEN PyNone
                                ELSE SynthesizedBody(BodyParam(parameters)),
                            responses |-> Get(operation, "responses", EmptyMap),
                            tags |-> Get(operation, "tags", <<>>)]]

\* lines 272-326: the operations of one path item, in the order of the methods
RECURSIVE PathItemInfos(_, _, _, _)
PathItemInfos(path, path_item, methods, is_openapi3) ==
    IF methods = <<>> THEN [ok |-> TRUE, val |-> <<>>]
    ELSE IF ~IsMapping(path_item) THEN [ok |-> FALSE, val |-> <<>>]
    ELSE LET method == Head(methods)
             rest == PathItemInfos(path, path_item, Tail(methods), is_openapi3)
         IN  IF ~Has(path_item, method) \/ ~Truthy(path_item[method]) THEN rest
             ELSE LET info == PathInfo(path, method, path_item[method], is_openapi3) IN
                  [ok |-> info.ok /\ rest.ok, val |-> <<info.val>> \o rest.val]

\* lines 268-326: the path items in the order of the document
RECURSIVE PathsInfos(_, _, _)
PathsInfos(paths, keys, is_openapi3) ==
    IF keys = <<>> THEN [ok |-> TRUE, val |-> <<>>]
    ELSE LET rest == PathsInfos(paths, Tail(keys), is_openapi3) IN
         IF ~Truthy(paths[Head(keys)]) THEN rest
         ELSE LET here == PathItemInfos(Head(keys), paths[Head(keys)], METHODS, is_openapi3)
              IN  [ok |-> here.ok /\ rest.ok, val |-> here.val \o rest.val]

\* lines 260-331
extract_paths(api) ==
    IF ~Truthy(api) \/ ~IsMapping(api) THEN <<>>
    ELSE IF ~Has(api, "paths") \/ ~IsMapping(api["paths"]) THEN <<>>
    ELSE LET r == PathsInfos(api["paths"], Keys(api["paths"]), Has(api, "openapi")) IN
         IF r.ok THEN r.val ELSE <<>>

\* a call of extract_paths on the document
ExtractPaths ==
    /\ pc = "ready"
    /\ paths_info' = extract_paths(heap["doc"])
    /\ pc' = "extracted"
    /\ UNCHANGED <<heap, apiObj, definitions, plan, escaped, stack, returned,
                   doc0, normCount, norm1, log, visited>>
    /\ UNCHANGED <<parseVars, genVars>>
    /\ UNCHANGED frameworkVars

----------------------------------------------------------------------------
(* parse_swagger_doc.  The text of the file is known by what the two       *)
(* parsers make of it: `file.json` is the outcome of json.loads,           *)
(* `file.yaml` the outcome of yaml.safe_load, each a value or a failure.   *)

Parsed(v) == [ok |-> TRUE, val |-> v]
Unparsable == [ok |-> FALSE, val |-> PyNone]
NoFile == [json |-> Unparsable, yaml |-> Unparsable]

\* lines 31-38: JSON first, YAML when JSON fails
Load(f) == IF f.json.ok THEN f.json ELSE f.yaml

\* the test of line 41, negated: "yes" when the content passes, "no" when the
\* ValueError of line 42 is raised, "raise" when the `in` test itself raises
HasVersionMarker(content) ==
    IF ~Truthy(content) THEN "no"
    ELSE LET s == PyIn("swagger", content) IN
         IF s # "no" THEN s ELSE PyIn("openapi", content)

\* lines 27-38
ParseFile ==
    /\ pc = "file"
    /\ LET r == Load(file) IN
       /\ heap' = [heap EXCEPT !["doc"] = IF r.ok THEN r.val ELSE heap["doc"]]
       /\ pc' = IF r.ok THEN "parsed" ELSE "raised"
       /\ error' = IF r.ok THEN "none" ELSE "format"
    /\ UNCHANGED <<apiObj, definitions, plan, escaped, stack, returned,
                   doc0, normCount, norm1, log, visited>>
    /\ UNCHANGED <<file, genVars, extractVars>>
    /\ UNCHANGED frameworkVars

\* lines 41-42
Validate ==
    /\ pc = "parsed"
    /\ LET v == HasVersionMarker(heap["doc"]) IN
       /\ pc' = IF v = "yes" THEN "valid" ELSE "raised"
       /\ error' = IF v = "yes" THEN "none" ELSE IF v = "no" THEN "schema" ELSE "unexpected"
    /\ UNCHANGED <<heap, apiObj, definitions, plan, escaped, stack, returned,
                   doc0, normCount, norm1, log, visited>>
    /\ UNCHANGED <<file, genVars, extractVars>>
    /\ UNCHANGED frameworkVars

\* line 45: the content is normalised in place; an error of the call is raised
\* to the caller of parse_swagger_doc by line 52
ParseNormalize ==
    /\ pc = "valid"
    /\ LET r == _normalize_swagger_document(heap["doc"]) IN
       /\ heap' = [heap EXCEPT !["doc"] = r.val]
       /\ pc' = IF r.ok THEN "ready" ELSE "raised"
       /\ error' = IF r.ok THEN "none" ELSE "unexpected"
       /\ normCount' = IF r.ok THEN normCount + 1 ELSE normCount
       /\ norm1' = IF r.ok THEN r.val ELSE norm1
    /\ UNCHANGED <<apiObj, definitions, plan, escaped, stack, returned, doc0, log, visited>>
    /\ UNCHANGED <<file, genVars, extractVars>>
    /\ UNCHANGED frameworkVars

----------------------------------------------------------------------------
(* PluginManager.  The plugin objects are p1, p2 and p3; p1 and p2 have    *)
(* the same name.  A list of plugins is a sequence of plugin objects.      *)

PluginObjects == {"p1", "p2", "p3"}

\* plugin.name
PluginName == [p1 |-> "a", p2 |-> "a", p3 |-> "b"]

\* plugin.get_plugin_type()
PluginTypeOf == [p1 |-> "hook", p2 |-> "middleware", p3 |-> "hook"]

\* plugin.get_supported_hooks()
SupportedHooks == [p1 |-> <<"before_request">>,
                   p2 |-> <<"before_request", "on_error">>,
                   p3 |-> <<"after_request", "before_request">>]

PluginHooks == {"before_request", "after_request", "on_error"}

\* the configurations register_plugin is called with
PluginConfigs == {PyNone, EmptyMap, ("k" :> "v")}

\* lines 201-203, 207-209: the list under the key is created when missing,
\* and the plugin appended to it
AppendPlugin(registry, key, plugin) ==
    IF key \in DOMAIN registry
    THEN [registry EXCEPT ![key] = Append(@, plugin)]
    ELSE registry @@ (key :> <<plugin>>)

\* lines 206-209
RECURSIVE RegisterHooks(_, _, _)
RegisterHooks(registry, hooks, plugin) ==
    IF hooks = <<>> THEN registry
    ELSE RegisterHooks(AppendPlugin(registry, Head(hooks), plugin), Tail(hooks), plugin)

\* lines 237, 242: the plugins of the list with another name
WithoutName(list, plugin_name) == SelectSeq(list, LAMBDA q : PluginName[q] # plugin_name)

NoHook == [hook |-> "none", plugins |-> <<>>]

\* lines 180-211; when initialize raises, the call ends before line 196
RegisterPlugin ==
    /\ registrations < MaxRegistrations
    /\ \E plugin \in PluginObjects, config \in PluginConfigs, raises \in BOOLEAN :
          IF raises
          THEN UNCHANGED <<plugins, plugin_configs, plugins_by_type, hook_plugins>>
          ELSE LET plugin_config == IF Truthy(config) THEN config ELSE EmptyMap
                   name == PluginName[plugin]
               IN  /\ plugins' = Put(plugins, name, plugin)
                   /\ plugin_configs' = Put(plugin_configs, name, plugin_config)
                   /\ plugins_by_type' = AppendPlugin(plugins_by_type, PluginTypeOf[plugin], plugin)
                   /\ hook_plugins' = RegisterHooks(hook_plugins, SupportedHooks[plugin], plugin)
    /\ registrations' = registrations + 1
    /\ executed' = NoHook
    /\ UNCHANGED enabled
    /\ UNCHANGED <<swaggerVars, clientVars, serviceVars>>

\* lines 213-244; when cleanup raises, the call ends before line 230
UnregisterPlugin ==
    /\ \E plugin_name \in {"a", "b"}, raises \in BOOLEAN :
          IF plugin_name \notin DOMAIN plugins \/ raises
          THEN UNCHANGED <<plugins, plugin_configs, plugins_by_type, hook_plugins>>
          ELSE LET plugin == plugins[plugin_name]
                   plugin_type == PluginTypeOf[plugin]
               IN  /\ plugins' = Del(plugins, plugin_name)
                   /\ plugin_configs' = Del(plugin_configs, plugin_name)
                   /\ plugins_by_type' =
                          IF plugin_type \in DOMAIN plugins_by_type
                          THEN [plugins_by_type EXCEPT ![plugin_type] = WithoutName(@, plugin_name)]
                          ELSE plugins_by_type
                   /\ hook_plugins' = [hook \in DOMAIN hook_plugins |->
                                          WithoutName(hook_plugins[hook], plugin_name)]
    /\ executed' = NoHook
    /\ UNCHANGED <<enabled, registrations>>
    /\ UNCHANGED <<swaggerVars, clientVars, serviceVars>>

\* lines 269-281: the enabled plugins of the hook's list run, in its order;
\* what a plugin raises is caught
HookRun(hook) ==
    LET listed == IF hook \in DOMAIN hook_plugins THEN hook_plugins[hook] ELSE <<>> IN
    [hook |-> hook, plugins |-> SelectSeq(listed, LAMBDA q : enabled[q])]

\* lines 258-281
ExecuteHook ==
    /\ \E hook \in PluginHooks : executed' = HookRun(hook)
    /\ UNCHANGED <<plugins, plugin_configs, plugins_by_type, hook_plugins, enabled, registrations>>
    /\ UNCHANGED <<swaggerVars, clientVars, serviceVars>>

\* lines 323-333: enable_plugin and disable_plugin
EnablePlugin ==
    /\ \E plugin_name \in {"a", "b"}, value \in BOOLEAN :
          enabled' = IF plugin_name \in DOMAIN plugins
                     THEN [enabled EXCEPT ![plugins[plugin_name]] = value]
                     ELSE enabled
    /\ executed' = NoHook
    /\ UNCHANGED <<plugins, plugin_configs, plugins_by_type, hook_plugins, registrations>>
    /\ UNCHANGED <<swaggerVars, clientVars, serviceVars>>

\* lines 174-178, 42-45: a new PluginManager, and plugin objects as constructed
PluginIdle ==
    /\ plugins = EmptyMap
    /\ plugin_configs = EmptyMap
    /\ plugins_by_type = EmptyMap
    /\ hook_plugins = EmptyMap
    /\ enabled = [q \in PluginObjects |-> TRUE]
    /\ executed = NoHook
    /\ registrations = 0

----------------------------------------------------------------------------
(* RequestsClient.send.  The trace holds "before_request", "after_request" *)
(* and "on_error" for the execute_hook calls and "request_ok" or           *)
(* "request_failed" for a call of session.request that returned a         *)
(* response or raised.  The logger calls and the middlewares, whose        *)
(* exceptions prepare_request catches, change nothing of the state.        *)

LoopEnds_late(i) == i >= retry_count + 2

\* line 114: range(self.retry_count + 1) is exhausted
LoopEnds(i) == i >= retry_count + 1

\* no send is running
Callable == clientPc \in {"idle", "returned", "raised"}

\* lines 54-63
SetRetry ==
    /\ Callable
    /\ \E count \in 0..MaxRetry : retry_count' = count
    /\ UNCHANGED <<clientPc, attempt, resp, trace, retry0, sends>>
    /\ UNCHANGED <<swaggerVars, pluginVars, serviceVars>>

\* lines 95-113: the hooks before the request, the request data, the start
\* of the loop
SendBegin ==
    /\ Callable /\ sends < MaxSends
    /\ executed' = HookRun("before_request")
    /\ trace' = <<"before_request">>
    /\ retry0' = retry_count
    /\ attempt' = 0
    /\ clientPc' = "loop"
    /\ sends' = sends + 1
    /\ UNCHANGED <<retry_count, resp>>
    /\ UNCHANGED <<plugins, plugin_configs, plugins_by_type, hook_plugins, enabled, registrations>>
    /\ UNCHANGED <<swaggerVars, serviceVars>>

\* lines 115-130: session.request returns a response; it is kept and logged,
\* the hooks after the request run, and send returns it
AttemptResponse ==
    /\ clientPc = "loop" /\ ~LoopEnds(attempt)
    /\ resp' = [send |-> sends, attempt |-> attempt]
    /\ executed' = HookRun("after_request")
    /\ trace' = trace \o <<"request_ok", "after_request">>
    /\ clientPc' = "returned"
    /\ UNCHANGED <<retry_count, attempt, retry0, sends>>
    /\ UNCHANGED <<plugins, plugin_configs, plugins_by_type, hook_plugins, enabled, registrations>>
    /\ UNCHANGED <<swaggerVars, serviceVars>>

\* lines 116, 132-138: session.request raises; the loop goes on after the delay
AttemptFails ==
    /\ clientPc = "loop" /\ ~LoopEnds(attempt)
    /\ trace' = Append(trace, "request_failed")
    /\ attempt' = attempt + 1
    /\ UNCHANGED <<clientPc, retry_count, resp, retry0, sends>>
    /\ UNCHANGED <<swaggerVars, pluginVars, serviceVars>>

\* lines 140-149: the loop is exhausted; the error hooks run and send raises
SendFails ==
    /\ clientPc = "loop" /\ LoopEnds(attempt)
    /\ executed' = HookRun("on_error")
    /\ trace' = Append(trace, "on_error")
    /\ clientPc' = "raised"
    /\ UNCHANGED <<retry_count, attempt, resp, retry0, sends>>
    /\ UNCHANGED <<plugins, plugin_configs, plugins_by_type, hook_plugins, enabled, registrations>>
    /\ UNCHANGED <<swaggerVars, serviceVars>>

\* no response yet
NoResponse == [send |-> 0, attempt |-> 0]

\* lines 20-34: a new RequestsClient
ClientIdle ==
    /\ clientPc = "idle"
    /\ retry_count = 0
    /\ attempt = 0
    /\ resp = NoResponse
    /\ trace = <<>>
    /\ retry0 = 0
    /\ sends = 0

----------------------------------------------------------------------------
(* ConfigManager.  A string that takes part in a concatenation is the      *)
(* sequence of its pieces: the section "http.timeout" is                   *)
(* <<"http", ".", "timeout">>, and f"{section}.{key}" is the concatenation  *)
(* of the pieces.  A key is None or a string; the configuration values are *)
(* Python values.  The file <section>.yml is named by its section.         *)

\* what load_yaml_file makes of a file it cannot read: it raises
Unreadable == ("#py" :> "raises")

PieceUpper(piece) ==
    CASE piece = "http" -> "HTTP"
      [] piece = "timeout" -> "TIMEOUT"
      [] piece = "auth" -> "AUTH"
      [] piece = "common" -> "COMMON"
      [] piece = "svc" -> "SVC"
      [] piece = "factory" -> "FACTORY"
      [] OTHER -> piece

\* s.upper()
StrUpper(s) == [i \in 1..Len(s) |-> PieceUpper(s[i])]

\* the pieces of an f-string field holding a key
KeyPieces(key) == key["#chars"]

\* line 54
cache_key(section, key) ==
    IF Truthy(key) THEN section \o <<".">> \o KeyPieces(key) ELSE section

\* lines 71-74
env_key(section, key) ==
    IF Truthy(key)
    THEN <<"API_TEST_">> \o StrUpper(section) \o <<"_">> \o StrUpper(KeyPieces(key))
    ELSE <<"API_TEST_">> \o StrUpper(section)

\* lines 81-84: json.loads of the text, or the text itself when it is not JSON
EnvValue(text) ==
    CASE text = "30" -> PyNum("int", 30)
      [] text = "null" -> PyNone
      [] text = "{}" -> EmptyMap
      [] OTHER -> PyStr(<<text>>)

\* lines 69-84
get_from_env(section, key) ==
    IF env_key(section, key) \in DOMAIN environ
    THEN EnvValue(environ[env_key(section, key)])
    ELSE PyNone

\* the dict key a key string is: a key of the model is one piece
KeyName(key) == KeyPieces(key)[1]

\* lines 86-100
get_from_file(files, section, key, default) ==
    IF section \notin DOMAIN files THEN default
    ELSE IF files[section] = Unreadable THEN default
    ELSE IF Truthy(key)
         THEN IF IsMapping(files[section])
              THEN Get(files[section], KeyName(key), default)
              ELSE default
         ELSE files[section]

\* lines 41-67: the value get_config returns, then the cache it leaves
get_config(cache, section, key, default) ==
    IF cache_key(section, key) \in DOMAIN cache
    THEN <<cache[cache_key(section, key)], cache>>
    ELSE IF get_from_env(section, key) # PyNone
         THEN <<get_from_env(section, key),
                Put(cache, cache_key(section, key), get_from_env(section, key))>>
         ELSE <<get_from_file(config_files, section, key, default),
                Put(cache, cache_key(section, key),
                    get_from_file(config_files, section, key, default))>>

\* an environment variable gives the value: line 60
EnvProvides(section, key) == get_from_env(section, key) # PyNone

\* the file gives the value: none of the `default` returns of lines 91, 96 and 100
FileProvides(section, key) ==
    /\ section \in DOMAIN config_files
    /\ config_files[section] # Unreadable
    /\ Truthy(key) => /\ IsMapping(config_files[section])
                      /\ Has(config_files[section], KeyName(key))

ConfigSections == {<<"http">>, <<"http", ".", "timeout">>}
ConfigKeys == {PyNone, PyStr(<<>>), PyStr(<<"timeout">>)}
ConfigDefaults == {PyNone, PyNum("int", 5), PyNum("int", 10)}

NoConfigCall == [called |-> FALSE, section |-> <<>>, key |-> PyNone, default |-> PyNone,
                 value |-> PyNone, env |-> FALSE, file |-> FALSE, set |-> FALSE,
                 cached |-> FALSE]

\* lines 41-67
GetConfig ==
    /\ \E section \in ConfigSections, key \in ConfigKeys, default \in ConfigDefaults :
          /\ config_cache' = get_config(config_cache, section, key, default)[2]
          /\ configCall' = [called |-> TRUE, section |-> section, key |-> key,
                            default |-> default,
                            value |-> get_config(config_cache, section, key, default)[1],
                            env |-> EnvProvides(section, key),
                            file |-> FileProvides(section, key),
                            set |-> cache_key(section, key) \in config_set,
                            cached |-> cache_key(section, key) \in DOMAIN config_cache]
    /\ UNCHANGED <<environ, config_files, config_set>>
    /\ UNCHANGED <<swaggerVars, pluginVars, clientVars, authVars>>

\* lines 102-112
SetConfig ==
    /\ \E section \in ConfigSections, key \in {PyStr(<<"timeout">>)} :
          /\ config_cache' = Put(config_cache, section \o <<".">> \o KeyPieces(key),
                                 PyNum("int", 7))
          /\ config_set' = config_set \cup {section \o <<".">> \o KeyPieces(key)}
    /\ UNCHANGED <<environ, config_files, configCall>>
    /\ UNCHANGED <<swaggerVars, pluginVars, clientVars, authVars>>

\* lines 114-116
ClearCache ==
    /\ config_cache' = EmptyMap
    /\ config_set' = {}
    /\ UNCHANGED <<environ, config_files, configCall>>
    /\ UNCHANGED <<swaggerVars, pluginVars, clientVars, authVars>>

\* the environment file load_env_config finds: one section, for http
EnvConfig == ("http" :> ("timeout" :> PyNum("int", 40)))

\* lines 118-146: every section of the environment file that is a dict is
\* written to its file, and the cache is cleared
LoadEnvConfig ==
    /\ config_files' = [section \in DOMAIN config_files \cup {<<s>> : s \in DOMAIN EnvConfig} |->
                           IF section[1] \in DOMAIN EnvConfig /\ Len(section) = 1
                           THEN EnvConfig[section[1]]
                           ELSE config_files[section]]
    /\ config_cache' = EmptyMap
    /\ config_set' = {}
    /\ UNCHANGED <<environ, configCall>>
    /\ UNCHANGED <<swaggerVars, pluginVars, clientVars, authVars>>

\* a new process: nothing cached, no variable set, no file
ConfigIdle ==
    /\ config_cache = EmptyMap
    /\ environ = EmptyMap
    /\ config_files = EmptyMap
    /\ config_set = {}
    /\ configCall = NoConfigCall

----------------------------------------------------------------------------
(* AuthManager.  An `auth_type` is a member of the enumeration AuthType of *)
(* api/base_api.py or a string; a service name is one piece.  Time is      *)
(* counted in units, and an ISO time text is the time it names.            *)

\* a member of AuthType
Member(name, value) == ("#py" :> "AuthType") @@ ("name" :> name) @@ ("value" :> value)
BEARER == Member("BEARER", "bearer")
BASIC == Member("BASIC", "basic")

IsMember(auth_type) == ~IsMapping(auth_type) /\ auth_type["#py"] = "AuthType"

\* the pieces of an f-string field holding an auth_type: the text of a
\* string, and the class and the name of a member
TypePieces(auth_type) ==
    IF IsMember(auth_type) THEN <<"AuthType", ".", auth_type["name"]>>
    ELSE auth_type["#chars"]

\* lines 53 and 238
auth_key(service_name, auth_type) == service_name \o <<"_">> \o TypePieces(auth_type)

\* datetime.isoformat()
IsoFormat(t) == ("#py" :> "isoformat") @@ ("t" :> t)

\* the 24 hours of line 126
LoginLifetime == 1

\* lines 179-192
is_token_valid(auth_info) ==
    IF ~Truthy(Get(auth_info, "token", PyNone)) THEN FALSE
    ELSE IF ~Truthy(Get(auth_info, "expires_at", PyNone)) THEN TRUE
    ELSE now < auth_info["expires_at"]["t"]

\* d.update(other)
Update(d, other) == [k \in DOMAIN d \cup DOMAIN other |-> IF k \in DOMAIN other THEN other[k] ELSE d[k]]

\* x[0] if isinstance(x, list) else x
FirstOf(x) == IF IsPyList(x) THEN x["#elems"][1] ELSE x

\* lines 96-112
extract_auth_from_common_config(common_config) ==
    IF Truthy(Get(common_config, "username", PyList(<<>>)))
       /\ Truthy(Get(common_config, "password", PyList(<<>>)))
    THEN IF Truthy(Get(common_config, "tenant_id", PyList(<<>>)))
         THEN [k \in {"username", "password", "tenant_id"} |-> FirstOf(common_config[k])]
         ELSE [k \in {"username", "password"} |-> FirstOf(common_config[k])]
    ELSE EmptyMap

\* line 78
token_key(service_name) == <<"API_TEST_TOKEN_">> \o StrUpper(service_name)

\* the value of an expression that is computed once
Only(values) == CHOOSE v \in values : TRUE

\* lines 75-94: the auth info _load_auth_from_config returns, then the
\* configuration cache it leaves
load_auth_from_config(cache, service_name) ==
    IF token_key(service_name) \in DOMAIN environ /\ environ[token_key(service_name)] # ""
    THEN <<("token" :> PyStr(<<environ[token_key(service_name)]>>)), cache>>
    ELSE Only({
        IF IsMapping(auth[1]) /\ IsMapping(Get(auth[1], service_name[1], EmptyMap))
        THEN <<Get(auth[1], service_name[1], EmptyMap), auth[2]>>
        ELSE Only({
            IF IsMapping(common[1])
            THEN <<extract_auth_from_common_config(common[1]), common[2]>>
            ELSE <<EmptyMap, common[2]>> :
            common \in {get_config(auth[2], <<"common">>, PyNone, EmptyMap)}}) :
        auth \in {get_config(cache, <<"auth">>, PyNone, EmptyMap)}})

\* lines 133-177: what _perform_login may return: the token of the login
\* response or None for factory, None for every other service
LoginResults(service_name) ==
    IF service_name = <<"factory">> THEN {PyNone, ("token" :> PyStr(<<"L1">>))}
    ELSE {PyNone}

\* lines 114-131, for one login result
auto_login(cache, service_name, login_result) ==
    Only({
        IF ~Truthy(Get(loaded[1], "username", PyNone)) \/ ~Truthy(Get(loaded[1], "password", PyNone))
        THEN <<EmptyMap, loaded[2]>>
        ELSE IF Truthy(login_result)
             THEN <<Update(Update(loaded[1], login_result),
                           ("expires_at" :> IsoFormat(now + LoginLifetime))), loaded[2]>>
             ELSE loaded :
        loaded \in {load_auth_from_config(cache, service_name)}})

\* an exception leaves the call
AuthRaised == ("#py" :> "raised")

NoAuthCall == [op |-> "none", service_name |-> <<>>, auth_type |-> PyNone, token |-> PyNone,
               expires_in |-> PyNone, result |-> EmptyMap, loaded |-> FALSE, login |-> FALSE]

\* lines 69-73: the auth info is kept when it is not empty
Kept(key, auth_info) ==
    IF Truthy(auth_info) THEN Put(auth_cache, key, auth_info) ELSE auth_cache

\* lines 42-73, for one login result: the auth info returned or AuthRaised,
\* the two caches left, whether the configuration was loaded and whether a
\* login was tried
get_auth_info(service_name, auth_type, login_result) ==
    IF /\ auth_key(service_name, auth_type) \in DOMAIN auth_cache
       /\ is_token_valid(auth_cache[auth_key(service_name, auth_type)])
    THEN [result |-> auth_cache[auth_key(service_name, auth_type)], auth |-> auth_cache,
          config |-> config_cache, loaded |-> FALSE, login |-> FALSE]
    ELSE Only({
        IF Truthy(Get(loaded[1], "token", PyNone))
        THEN [result |-> loaded[1],
              auth |-> Kept(auth_key(service_name, auth_type), loaded[1]),
              config |-> loaded[2], loaded |-> TRUE, login |-> FALSE]
        ELSE IF ~IsMember(auth_type)
        THEN [result |-> AuthRaised, auth |-> auth_cache, config |-> loaded[2],
              loaded |-> TRUE, login |-> FALSE]
        ELSE IF auth_type["value"] = "bearer"
        THEN Only({[result |-> login[1],
                    auth |-> Kept(auth_key(service_name, auth_type), login[1]),
                    config |-> login[2], loaded |-> TRUE, login |-> TRUE] :
                   login \in {auto_login(loaded[2], service_name, login_result)}})
        ELSE [result |-> loaded[1],
              auth |-> Kept(auth_key(service_name, auth_type), loaded[1]),
              config |-> loaded[2], loaded |-> TRUE, login |-> FALSE] :
        loaded \in {load_auth_from_config(config_cache, service_name)}})

Services == {<<"svc">>, <<"factory">>}
AuthTypes == {BEARER, BASIC, PyStr(<<"bearer">>)}
Tokens == {PyStr(<<"T1">>), PyStr(<<"T2">>)}
ExpiresIn == {PyNone, PyNum("int", 1)}

\* the summary of a call that the next call keeps
Summary(call) ==
    IF call.op = "set_global_token"
    THEN [call EXCEPT !.result = EmptyMap, !.loaded = FALSE, !.login = FALSE]
    ELSE [NoAuthCall EXCEPT !.op = call.op]

\* lines 42-73
GetAuthInfo ==
    /\ authCalls < MaxAuthCalls
    /\ \E service_name \in Services, auth_type \in AuthTypes :
       \E login_result \in LoginResults(service_name) :
       \E out \in {get_auth_info(service_name, auth_type, login_result)} :
              /\ auth_cache' = out.auth
              /\ config_cache' = out.config
              /\ authCall' = [op |-> "get_auth_info", service_name |-> service_name,
                              auth_type |-> auth_type, token |-> PyNone,
                              expires_in |-> PyNone, result |-> out.result,
                              loaded |-> out.loaded, login |-> out.login]
    /\ authPrev' = Summary(authCall)
    /\ authCalls' = authCalls + 1
    /\ UNCHANGED <<now, environ, config_files, config_set, configCall>>
    /\ UNCHANGED <<swaggerVars, pluginVars, clientVars>>

\* lines 230-234
auth_data(token, expires_in) ==
    IF Truthy(expires_in)
    THEN ("token" :> token) @@ ("expires_at" :> IsoFormat(now + expires_in["#n"]))
    ELSE ("token" :> token)

\* lines 239-242, for one cache key
WithToken(cache, key, data) ==
    IF key \in DOMAIN cache THEN Put(cache, key, Update(cache[key], data))
    ELSE Put(cache, key, data)

\* lines 221-242
SetGlobalToken ==
    /\ authCalls < MaxAuthCalls
    /\ \E service_name \in Services, token \in Tokens, expires_in \in ExpiresIn :
          /\ auth_cache' = WithToken(WithToken(auth_cache,
                                         auth_key(service_name, PyStr(<<"bearer">>)),
                                         auth_data(token, expires_in)),
                                     auth_key(service_name, PyStr(<<"custom">>)),
                                     auth_data(token, expires_in))
          /\ authCall' = [NoAuthCall EXCEPT !.op = "set_global_token",
                                            !.service_name = service_name,
                                            !.token = token, !.expires_in = expires_in]
    /\ authPrev' = Summary(authCall)
    /\ authCalls' = authCalls + 1
    /\ UNCHANGED <<now, configVars>>
    /\ UNCHANGED <<swaggerVars, pluginVars, clientVars>>

\* key.startswith(f"{service_name}_")
StartsWith(key, service_name) ==
    /\ Len(key) >= Len(service_name) + 1
    /\ SubSeq(key, 1, Len(service_name) + 1) = service_name \o <<"_">>

\* lines 194-205
UpdateAuthInfo ==
    /\ authCalls < MaxAuthCalls
    /\ \E service_name \in Services :
          /\ auth_cache' = [key \in DOMAIN auth_cache |->
                               IF StartsWith(key, service_name)
                               THEN Update(auth_cache[key], ("token" :> PyStr(<<"T2">>)))
                               ELSE auth_cache[key]]
          /\ authCall' = [NoAuthCall EXCEPT !.op = "update_auth_info",
                                            !.service_name = service_name]
    /\ authPrev' = Summary(authCall)
    /\ authCalls' = authCalls + 1
    /\ UNCHANGED <<now, configVars>>
    /\ UNCHANGED <<swaggerVars, pluginVars, clientVars>>

\* lines 207-219
ClearAuthCache ==
    /\ authCalls < MaxAuthCalls
    /\ \E service_name \in Services \cup {<<>>} :
          /\ auth_cache' = IF service_name # <<>>
                           THEN [key \in {k \in DOMAIN auth_cache : ~StartsWith(k, service_name)} |->
                                    auth_cache[key]]
                           ELSE EmptyMap
          /\ authCall' = [NoAuthCall EXCEPT !.op = "clear_auth_cache",
                                            !.service_name = service_name]
    /\ authPrev' = Summary(authCall)
    /\ authCalls' = authCalls + 1
    /\ UNCHANGED <<now, configVars>>
    /\ UNCHANGED <<swaggerVars, pluginVars, clientVars>>

\* time passes
Tick ==
    /\ now < MaxTime
    /\ now' = now + 1
    /\ UNCHANGED <<auth_cache, authCall, authPrev, authCalls, configVars>>
    /\ UNCHANGED <<swaggerVars, pluginVars, clientVars>>

\* a new process: nothing cached
AuthIdle ==
    /\ auth_cache = EmptyMap
    /\ now = 0
    /\ authCall = NoAuthCall
    /\ authPrev = NoAuthCall
    /\ authCalls = 0

\* the framework objects as constructed
FrameworkIdle == PluginIdle /\ ClientIdle /\ ConfigIdle /\ AuthIdle

----------------------------------------------------------------------------
(* The documents the model starts from.                                    *)

RefTo(name) == <<"#", "definitions", name>>
AltRefTo(name) == <<"#", "components", "schemas", name>>
RefNode(ref) == ("$ref" :> ref)

StringSchema == ("type" :> "string")
ArrayOf(items) == ("type" :> "array") @@ ("items" :> items)
ObjectOf(properties) == ("type" :> "object") @@ ("properties" :> properties)

\* what a property of a definition may be
PropNodes ==
    {RefNode(RefTo("A")), RefNode(RefTo("B")), RefNode(RefTo("Ghost")),
     RefNode(AltRefTo("A")), RefNode(NonStringRef), StringSchema, PyInt,
     ArrayOf(RefNode(RefTo("B")))}

SecondPropNodes == {RefNode(RefTo("A")), RefNode(RefTo("B")), StringSchema}

ItemNodes ==
    {RefNode(RefTo("A")), RefNode(RefTo("B")), RefNode(RefTo("Ghost")), StringSchema, PyNone}

DefinitionsOfA ==
    {StringSchema, PyNone}
    \cup {ObjectOf("p" :> x) : x \in PropNodes}
    \cup {ObjectOf(("p" :> x) @@ ("q" :> y)) : x \in PropNodes, y \in SecondPropNodes}
    \cup {ArrayOf(x) : x \in ItemNodes}

DefinitionsOfB ==
    {StringSchema, PyNone, ArrayOf(PyNone), ArrayOf(RefNode(RefTo("A"))),
     ObjectOf("p" :> RefNode(RefTo("A"))), ObjectOf("p" :> RefNode(RefTo("B"))),
     ObjectOf(("p" :> RefNode(RefTo("A"))) @@ ("q" :> RefNode(RefTo("A"))))}

Swagger2(paths, defs) ==
    ("swagger" :> "2.0") @@ ("paths" :> paths) @@ ("definitions" :> defs)

OpenApi3(paths, schemas) ==
    ("openapi" :> "3.0.0") @@ ("paths" :> paths) @@ ("components" :> ("schemas" :> schemas))

WithSchema(schema) == ("schema" :> schema)

GetOperation(operation) == ("get" :> operation)

\* documents that differ in the reference graph of their definitions
GraphDocs ==
    LET paths(ref) == ("/a" :> GetOperation("responses" :> ("200" :> WithSchema(RefNode(ref)))))
    IN  {Swagger2(paths(RefTo("A")), ("A" :> a) @@ ("B" :> b)) :
             a \in DefinitionsOfA, b \in DefinitionsOfB}
        \cup {Swagger2(paths(r), ("A" :> ObjectOf("p" :> RefNode(RefTo("B"))))) :
             r \in {RefTo("A"), RefTo("B"), RefTo("Ghost"), <<>>}}

\* what the `schema` of a parameter, a media type or a response may be
SchemaNodes ==
    {RefNode(RefTo("A")), RefNode(RefTo("Ghost")), PyNone,
     ArrayOf(RefNode(RefTo("A"))), StringSchema}

SiteDefinitions ==
    ("A" :> ObjectOf(("p" :> RefNode(RefTo("Ghost"))) @@ ("q" :> RefNode(RefTo("A")))))

Versioned(is3, paths) ==
    IF is3 THEN OpenApi3(paths, SiteDefinitions) ELSE Swagger2(paths, SiteDefinitions)

\* documents that differ in the places a reference is found at
SiteDocs ==
    LET at(operation) == ("/a" :> GetOperation(operation))
        two(k1, k2, s1, s2) == (k1 :> WithSchema(s1)) @@ (k2 :> WithSchema(s2))
    IN  {Versioned(is3, at("parameters" :> <<WithSchema(s1), WithSchema(s2)>>)) :
             is3 \in BOOLEAN, s1 \in SchemaNodes, s2 \in SchemaNodes}
        \cup {Versioned(is3, at("responses" :> two("200", "404", s1, s2))) :
             is3 \in BOOLEAN, s1 \in SchemaNodes, s2 \in SchemaNodes}
        \cup {Versioned(TRUE, at("responses" :>
                    ("200" :> ("content" :> two("m1", "m2", s1, s2))))) :
             s1 \in SchemaNodes, s2 \in SchemaNodes}
        \cup {Versioned(is3, at(("requestBody" :> ("content" :> two("m1", "m2", s1, s2)))
                                @@ ("responses" :> ("200" :> WithSchema(RefNode(RefTo("A"))))))) :
             is3 \in BOOLEAN, s1 \in SchemaNodes, s2 \in SchemaNodes}

GoodOperation == ("responses" :> ("200" :> WithSchema(RefNode(RefTo("A")))))

PathItems ==
    {GetOperation(GoodOperation), PyNone, PyInt, EmptyMap,
     GetOperation(PyInt), GetOperation(PyNone),
     GetOperation(("requestBody" :> PyNone) @@ GoodOperation),
     ("get" :> GoodOperation) @@ ("post" :> GoodOperation)}

\* documents that differ in the shape of `paths` and of the path items
PathDocs ==
    {Versioned(is3, ("/a" :> x) @@ ("/b" :> y)) :
         is3 \in BOOLEAN, x \in PathItems, y \in PathItems}
    \cup {Versioned(is3, PyNone) : is3 \in BOOLEAN}

OperationShapes ==
    {o1 @@ o2 @@ o3 :
         o1 \in {EmptyMap, ("tags" :> <<>>), ("tags" :> <<"pets">>)},
         o2 \in {EmptyMap, ("parameters" :> <<>>)},
         o3 \in {EmptyMap, GoodOperation}}

TopLevelShapes ==
    {v @@ c @@ d @@ t :
         v \in {("swagger" :> "2.0"), ("openapi" :> "3.0.0")},
         c \in {EmptyMap, ("components" :> EmptyMap), ("components" :> PyNone),
                ("components" :> ("schemas" :> SiteDefinitions))},
         d \in {EmptyMap, ("definitions" :> SiteDefinitions)},
         t \in {EmptyMap, ("tags" :> <<>>)}}

\* documents that differ in the optional parts normalisation fills in
ShapeDocs ==
    {top @@ ("paths" :> ("/a" :> GetOperation(o))) :
         top \in TopLevelShapes, o \in OperationShapes}
    \cup TopLevelShapes

\* documents that differ in where their definitions are kept
SourceDocs ==
    {v @@ d @@ c @@ ("paths" :> ("/a" :> GetOperation(
                         "responses" :> ("200" :> WithSchema(RefNode(r)))))) :
         v \in {("swagger" :> "2.0"), ("openapi" :> "3.0.0")},
         d \in {EmptyMap, ("definitions" :> EmptyMap), ("definitions" :> PyNone),
                ("definitions" :> ("A" :> StringSchema))},
         c \in {EmptyMap, ("components" :> EmptyMap), ("components" :> PyNone),
                ("components" :> ("schemas" :> EmptyMap)),
                ("components" :> ("schemas" :> ("B" :> ArrayOf(StringSchema))))},
         r \in {RefTo("A"), RefTo("B"), AltRefTo("B")}}

RecursiveRef(ref) == ("$recursiveRef" :> ref)

\* documents whose definitions hold the key `$recursiveRef`: with the
\* reference of their own name, with another reference, or in a property
MarkedDocs ==
    LET paths == ("/a" :> GetOperation("responses" :> ("200" :> WithSchema(RefNode(RefTo("A"))))))
    IN  {Swagger2(paths, ("A" :> a) @@ ("B" :> b)) :
             a \in {StringSchema @@ RecursiveRef(RefTo("A")),
                    ObjectOf("p" :> RefNode(RefTo("B"))) @@ RecursiveRef(RefTo("B")),
                    ObjectOf("p" :> RecursiveRef(RefTo("A"))),
                    ObjectOf("p" :> RefNode(RefTo("B")))},
             b \in {StringSchema @@ RecursiveRef(RefTo("B")), StringSchema,
                    ArrayOf(RecursiveRef(RefTo("B")))}}

Documents == GraphDocs \cup SiteDocs \cup PathDocs \cup ShapeDocs \cup SourceDocs

----------------------------------------------------------------------------

\* the resolver before _resolve_references is called
ResolverIdle ==
    /\ apiObj = "none"
    /\ definitions = EmptyMap
    /\ plan = <<>>
    /\ escaped = FALSE
    /\ stack = <<>>
    /\ returned = "none"
    /\ doc0 = EmptyMap
    /\ normCount = 0
    /\ norm1 = EmptyMap
    /\ log = {}
    /\ visited = {}

\* no file is being loaded
ParseIdle ==
    /\ file = NoFile
    /\ error = "none"

\* _generate_example has not been called
GenerateIdle ==
    /\ genPc = "idle"
    /\ genSchema = EmptyMap
    /\ genDefinitions = EmptyMap
    /\ genStack = <<>>
    /\ processed_refs = {}
    /\ genResult = PyNone
    /\ genFirst = PyNone
    /\ genCalls = 0
    /\ genLog = {}

\* extract_paths has not been called
ExtractIdle == paths_info = <<>>

Init ==
    /\ heap \in {[doc |-> d, copy |-> EmptyMap] : d \in Documents}
    /\ pc = "ready"
    /\ ResolverIdle
    /\ ParseIdle
    /\ GenerateIdle
    /\ ExtractIdle
    /\ FrameworkIdle

Next ==
    \/ Normalize
    \/ ResolveBegin
    \/ CallSite
    \/ EnterRef
    \/ ResolveProperty
    \/ ResolveItems
    \/ ReturnResult
    \/ ResolveEnd
    \/ CallerMutates

Spec == Init /\ [][Next]_vars

\* the same calls, also on the documents whose definitions hold the key
\* `$recursiveRef`
MarkedInit ==
    /\ heap \in {[doc |-> d, copy |-> EmptyMap] : d \in Documents \cup MarkedDocs}
    /\ pc = "ready"
    /\ ResolverIdle
    /\ ParseIdle
    /\ GenerateIdle
    /\ ExtractIdle
    /\ FrameworkIdle

MarkedSpec == MarkedInit /\ [][Next]_vars

----------------------------------------------------------------------------
(* parse_swagger_doc on a file: the parsed values a file may hold.         *)

Swagger == CharsOf("swagger")

\* parsed values that are not documents
OtherContents ==
    {PyNone, PyInt, PyNum("int", 0), EmptyMap,
     PyStr(<<>>), PyStr(<<"a", "p", "i">>), PyStr(Swagger),
     PyStr(CharsOf("openapi") \o <<":", "3">>),
     PyList(<<>>), PyList(<<PyStr(<<"a", "p", "i">>)>>), PyList(<<PyStr(Swagger)>>),
     PyList(<<PyStr(Swagger \o <<"2">>)>>),
     ("paths" :> EmptyMap), ("info" :> EmptyMap)}

\* documents with both version markers
TwoMarkerDocs ==
    {("swagger" :> "2.0") @@ ("openapi" :> "3.0.0") @@ x :
         x \in {EmptyMap, ("paths" :> ("/a" :> GetOperation(GoodOperation)))
                              @@ ("definitions" :> SiteDefinitions)}}

\* literal examples of a schema
Foo == PyStr(<<"f", "o", "o">>)
Seven == PyNum("int", 7)
Widget == PyStr(<<"w", "i", "d", "g", "e", "t">>)

\* the document of the `Item` scenario, for a definition `Item`
ItemDocument(item) ==
    ("openapi" :> "3.0.0")
    @@ ("paths" :> ("/items" :> GetOperation("responses" :> ("200" :>
            ("content" :> ("application/json" :>
                 WithSchema(RefNode(AltRefTo("Item")))))))))
    @@ ("components" :> ("schemas" :> ("Item" :> item)))

\* the `Item` of the scenario
Item ==
    ObjectOf(("id" :> ("type" :> "integer"))
             @@ ("name" :> (("type" :> "string") @@ ("example" :> Widget))))

\* definitions without references
ItemDefinitions ==
    {Item, StringSchema, ObjectOf(EmptyMap), ("type" :> "object")}
    \cup {ObjectOf(("id" :> x) @@ ("name" :> y)) :
             x \in {("type" :> "integer"), ("type" :> "boolean"),
                    ("type" :> "number") @@ ("format" :> "float"),
                    ("type" :> "integer") @@ ("examples" :> <<Seven>>)},
             y \in {StringSchema, ("type" :> "string") @@ ("example" :> Widget),
                    ("type" :> "string") @@ ("example" :> Widget) @@ ("examples" :> <<Foo>>),
                    ("type" :> "string") @@ ("format" :> "date")}}

ItemDocs == {ItemDocument(item) : item \in ItemDefinitions}

JsonContents == Documents \cup OtherContents \cup TwoMarkerDocs \cup ItemDocs

YamlContents == TopLevelShapes \cup OtherContents \cup TwoMarkerDocs

Files ==
    {[json |-> Parsed(c), yaml |-> Parsed(c)] : c \in JsonContents}
    \cup {[json |-> Unparsable, yaml |-> Parsed(c)] : c \in YamlContents}
    \cup {NoFile}

ParseInit ==
    /\ heap = [doc |-> PyNone, copy |-> EmptyMap]
    /\ pc = "file"
    /\ file \in Files
    /\ error = "none"
    /\ ResolverIdle
    /\ GenerateIdle
    /\ ExtractIdle
    /\ FrameworkIdle

ParseNext ==
    \/ ParseFile
    \/ Validate
    \/ ParseNormalize
    \/ ResolveBegin
    \/ CallSite
    \/ EnterRef
    \/ ResolveProperty
    \/ ResolveItems
    \/ ReturnResult
    \/ ResolveEnd
    \/ GenerateForResponse
    \/ GenerateEnter
    \/ GenerateProperty
    \/ GenerateReturn

ParseSpec == ParseInit /\ [][ParseNext]_vars

----------------------------------------------------------------------------
(* extract_paths on a document, as parsed or normalised.                   *)

True == PyNum("bool", 1)

QueryParam == [name |-> "limit", in |-> "query", type |-> "integer"]
PathParam == [name |-> "id", in |-> "path", required |-> True, schema |-> StringSchema]
FirstBody == [name |-> "body", in |-> "body", description |-> "first",
              required |-> True, schema |-> RefNode(RefTo("A"))]
SecondBody == [name |-> "other", in |-> "body", description |-> "second"]

\* the `parameters` of an operation; the last three hold a parameter whose
\* summary cannot be built
ParameterLists ==
    {<<>>, <<QueryParam>>, <<FirstBody>>, <<QueryParam, FirstBody, SecondBody>>,
     <<SecondBody, FirstBody>>,
     <<PathParam, [name |-> "x", in |-> "query", required |-> PyStr(<<"y">>)],
       [name |-> "z", in |-> "query", required |-> PyNone]>>,
     <<EmptyMap, [name |-> "s", in |-> "query", type |-> "integer", schema |-> PyInt]>>,
     <<QueryParam, PyNone>>, <<PyInt, FirstBody>>,
     <<[name |-> "s", in |-> "query", schema |-> PyInt]>>}

NativeBody == ("content" :> ("application/json" :> WithSchema(StringSchema)))

ExtractOperations ==
    {b @@ ps @@ rb :
         b \in {("responses" :> EmptyMap),
                [summary |-> "list", operationId |-> "op", tags |-> <<"pets">>,
                 responses |-> ("200" :> WithSchema(StringSchema))]},
         ps \in {EmptyMap} \cup {("parameters" :> pl) : pl \in ParameterLists},
         rb \in {EmptyMap, ("requestBody" :> NativeBody)}}

\* operations for the documents with several of them
FewOperations ==
    {EmptyMap, PyInt, ("parameters" :> <<FirstBody>>),
     ("parameters" :> <<SecondBody, FirstBody>>),
     ("parameters" :> <<QueryParam, PyNone>>),
     ("parameters" :> <<QueryParam>>) @@ ("requestBody" :> NativeBody)}

ExtractPathsOf ==
    {("/a" :> GetOperation(o)) : o \in ExtractOperations \cup {EmptyMap, PyNone, PyInt}}
    \cup {("/a" :> (("get" :> o1) @@ ("post" :> o2))) @@ ("/b" :> ("get" :> o3)) :
             o1 \in FewOperations, o2 \in FewOperations, o3 \in FewOperations}
    \cup {("/a" :> x) @@ ("/b" :> GetOperation("parameters" :> <<FirstBody>>)) :
             x \in {PyNone, EmptyMap, PyInt}}
    \cup {PyNone, EmptyMap}

ExtractDocs ==
    {v @@ ("paths" :> paths) :
         v \in {("swagger" :> "2.0"), ("openapi" :> "3.0.0")}, paths \in ExtractPathsOf}
    \cup {("swagger" :> "2.0"), ("openapi" :> "3.0.0")}

ExtractInit ==
    /\ heap \in {[doc |-> d, copy |-> EmptyMap] : d \in ExtractDocs}
    /\ pc = "ready"
    /\ ResolverIdle
    /\ ParseIdle
    /\ GenerateIdle
    /\ ExtractIdle
    /\ FrameworkIdle

ExtractNext ==
    \/ Normalize
    \/ ExtractPaths

ExtractSpec == ExtractInit /\ [][ExtractNext]_vars

----------------------------------------------------------------------------
(* _generate_example on a schema and a definitions map.                    *)

\* the literal examples a node may carry
Literals ==
    {EmptyMap, ("example" :> Foo), ("examples" :> <<Seven>>), ("examples" :> <<>>),
     ("example" :> Foo) @@ ("examples" :> <<Seven>>),
     ("example" :> Foo) @@ ("examples" :> <<>>)}

\* the declared type of a node: none, the six types, one that is none of them
Types ==
    {EmptyMap} \cup {("type" :> t) : t \in {"object", "array", "string", "integer",
                                             "number", "boolean", "file"}}

\* concrete schema nodes: every type with every literal, strings and numbers
\* with a format or an enum
LeafNodes ==
    {t @@ l : t \in Types, l \in Literals}
    \cup {("type" :> "string") @@ x :
             x \in {("format" :> "date-time"), ("format" :> "date"), ("format" :> "byte"),
                    ("enum" :> <<Foo>>), ("enum" :> <<>>),
                    ("enum" :> <<Foo>>) @@ ("format" :> "date"),
                    ("enum" :> <<Foo>>) @@ ("example" :> Seven)}}
    \cup {("type" :> t) @@ ("format" :> f) :
             t \in {"integer", "number"}, f \in {"int32", "int64", "float", "double"}}

\* concrete nodes with a part that is not a schema
OddNodes ==
    {PyNone, PyInt, PyNum("int", 0), PyStr(StringChars), PyList(<<>>),
     ("type" :> "object") @@ ("properties" :> PyNone),
     ("type" :> "array") @@ ("items" :> PyNone),
     ArrayOf(("type" :> "file")),
     ArrayOf(StringSchema) @@ ("example" :> Foo),
     ObjectOf(("p" :> StringSchema) @@ ("q" :> PyNone)),
     ObjectOf(("p" :> PyInt) @@ ("q" :> StringSchema)),
     ObjectOf(("p" :> PyStr(StringChars)) @@ ("q" :> StringSchema))}

\* objects whose properties are leaves
LeafObjects ==
    {ObjectOf(("p" :> x) @@ ("q" :> y)) :
         x \in {t @@ l : t \in Types, l \in {EmptyMap, ("example" :> Foo)}},
         y \in {StringSchema, ("type" :> "integer") @@ ("examples" :> <<Seven>>)}}

\* the definitions of the names A and B: self-references, cycles through
\* properties and items, and definitions referenced twice
GenDefinitionsOfA ==
    {StringSchema,
     ObjectOf("p" :> RefNode(RefTo("A"))),
     ObjectOf("p" :> RefNode(RefTo("B"))),
     ObjectOf(("p" :> RefNode(RefTo("B"))) @@ ("q" :> RefNode(RefTo("B")))),
     ObjectOf(("p" :> RefNode(RefTo("B"))) @@ ("q" :> RefNode(RefTo("A")))),
     ObjectOf(("p" :> RefNode(AltRefTo("B"))) @@ ("q" :> RefNode(RefTo("B")))),
     ArrayOf(RefNode(RefTo("A"))),
     ArrayOf(RefNode(RefTo("B"))),
     ObjectOf("p" :> ArrayOf(RefNode(RefTo("B"))))}

GenDefinitionsOfB ==
    {StringSchema, PyNone,
     ObjectOf("p" :> RefNode(RefTo("A"))),
     ObjectOf("p" :> RefNode(RefTo("B"))),
     ObjectOf(("p" :> StringSchema) @@ ("q" :> RefNode(RefTo("Ghost")))),
     ArrayOf(RefNode(RefTo("A")))}

\* schemas that hold references
RefSchemas ==
    {RefNode(RefTo("A")), RefNode(RefTo("B")), RefNode(RefTo("Ghost")),
     RefNode(NonStringRef), RefNode(<<>>),
     ObjectOf(("p" :> RefNode(RefTo("B"))) @@ ("q" :> RefNode(RefTo("B")))),
     ObjectOf(("p" :> RefNode(RefTo("A"))) @@ ("q" :> RefNode(NonStringRef))),
     ArrayOf(RefNode(RefTo("A")))}

\* nodes without a declared type
UntypedNodes ==
    {("description" :> "x"), ("properties" :> ("p" :> StringSchema)),
     ("properties" :> (("p" :> (("type" :> "integer") @@ ("example" :> Seven)))
                       @@ ("q" :> ("type" :> "boolean")))),
     ("format" :> "date"), ("enum" :> <<Foo>>)}

\* what the `items` of an array may be
ItemSchemas ==
    {t @@ l : t \in Types, l \in {EmptyMap, ("example" :> Foo)}}
    \cup {EmptyMap, PyNone, PyInt, ArrayOf(StringSchema), ObjectOf("p" :> StringSchema),
          ("type" :> "string") @@ ("enum" :> <<Foo>>),
          ("type" :> "string") @@ ("format" :> "date"),
          ("type" :> "number") @@ ("format" :> "float"),
          RefNode(RefTo("Ghost"))}

\* arrays by their items, and arrays with a literal of their own
ArrayNodes ==
    {ArrayOf(x) : x \in ItemSchemas}
    \cup {ArrayOf(StringSchema) @@ l : l \in Literals}

GenInputs ==
    {[schema |-> x, definitions |-> ("A" :> a) @@ ("B" :> b)] :
         x \in RefSchemas, a \in GenDefinitionsOfA, b \in GenDefinitionsOfB}
    \cup {[schema |-> x, definitions |-> d] :
         x \in LeafNodes \cup OddNodes \cup LeafObjects \cup ArrayNodes \cup UntypedNodes
               \cup {RefNode(RefTo("A"))},
         d \in {EmptyMap, PyNone}}

GenerateInit ==
    /\ \E i \in GenInputs : genSchema = i.schema /\ genDefinitions = i.definitions
    /\ genPc = "idle"
    /\ genStack = <<>>
    /\ processed_refs = {}
    /\ genResult = PyNone
    /\ genFirst = PyNone
    /\ genCalls = 0
    /\ genLog = {}
    /\ heap = [doc |-> EmptyMap, copy |-> EmptyMap]
    /\ pc = "none"
    /\ ResolverIdle
    /\ ParseIdle
    /\ ExtractIdle
    /\ FrameworkIdle

GenerateNext ==
    \/ GenerateCall
    \/ GenerateEnter
    \/ GenerateProperty
    \/ GenerateReturn

GenerateSpec == GenerateInit /\ [][GenerateNext]_vars

\* the program runs a started call to its end
FairGenerateSpec == GenerateSpec /\ WF_vars(GenerateNext)

----------------------------------------------------------------------------
(* No document is being processed.                                         *)

SwaggerIdle ==
    /\ heap = [doc |-> EmptyMap, copy |-> EmptyMap]
    /\ pc = "none"
    /\ ResolverIdle
    /\ ParseIdle
    /\ GenerateIdle
    /\ ExtractIdle

----------------------------------------------------------------------------
(* Calls on one PluginManager.                                             *)

PluginInit ==
    /\ SwaggerIdle
    /\ FrameworkIdle

----------------------------------------------------------------------------
(* Sends of one RequestsClient, over the global plugin manager: with no    *)
(* plugin, or after register_plugin(p1) and register_plugin(p3).           *)

ClientInit ==
    /\ SwaggerIdle
    /\ ClientIdle
    /\ ConfigIdle
    /\ AuthIdle
    /\ \/ PluginIdle
       \/ /\ plugins = ("a" :> "p1") @@ ("b" :> "p3")
          /\ plugin_configs = ("a" :> EmptyMap) @@ ("b" :> EmptyMap)
          /\ plugins_by_type = ("hook" :> <<"p1", "p3">>)
          /\ hook_plugins = ("before_request" :> <<"p1", "p3">>) @@ ("after_request" :> <<"p3">>)
          /\ enabled = [q \in PluginObjects |-> TRUE]
          /\ executed = NoHook
          /\ registrations = 2

ClientNext ==
    \/ SetRetry
    \/ SendBegin
    \/ AttemptResponse
    \/ AttemptFails
    \/ SendFails

ClientSpec == ClientInit /\ [][ClientNext]_vars

PluginNext ==
    \/ RegisterPlugin
    \/ UnregisterPlugin
    \/ ExecuteHook
    \/ EnablePlugin

PluginSpec == PluginInit /\ [][PluginNext]_vars

----------------------------------------------------------------------------
(* Calls on the one ConfigManager of a process.  The environment sets no   *)
(* variable, a timeout of 30, or a timeout whose text is null; the config  *)
(* directory is empty or has an http.yml that is a dict with or without a  *)
(* timeout, or that cannot be read.                                        *)

ConfigEnvironments ==
    {EmptyMap,
     (<<"API_TEST_", "HTTP", "_", "TIMEOUT">> :> "30"),
     (<<"API_TEST_", "HTTP", "_", "TIMEOUT">> :> "null")}

ConfigDirectories ==
    {EmptyMap,
     (<<"http">> :> ("timeout" :> PyNum("int", 20))),
     (<<"http">> :> EmptyMap),
     (<<"http">> :> Unreadable)}

ConfigInit ==
    /\ SwaggerIdle
    /\ PluginIdle
    /\ ClientIdle
    /\ AuthIdle
    /\ config_cache = EmptyMap
    /\ environ \in ConfigEnvironments
    /\ config_files \in ConfigDirectories
    /\ config_set = {}
    /\ configCall = NoConfigCall

ConfigNext ==
    \/ GetConfig
    \/ SetConfig
    \/ ClearCache
    \/ LoadEnvConfig

ConfigSpec == ConfigInit /\ [][ConfigNext]_vars

----------------------------------------------------------------------------
(* Calls on the one AuthManager of a process, over its ConfigManager.  The *)
(* process starts with no configuration, with a token for svc in the       *)
(* environment, with an auth.yml that has a token for svc, or with an      *)
(* empty auth.yml and the user names and passwords of common.yml.          *)

AuthInit ==
    /\ SwaggerIdle
    /\ PluginIdle
    /\ ClientIdle
    /\ AuthIdle
    /\ config_cache = EmptyMap
    /\ config_set = {}
    /\ configCall = NoConfigCall
    /\ \/ environ = EmptyMap /\ config_files = EmptyMap
       \/ /\ environ = (<<"API_TEST_TOKEN_", "SVC">> :> "E1")
          /\ config_files = EmptyMap
       \/ /\ environ = EmptyMap
          /\ config_files = (<<"auth">> :> ("svc" :> ("token" :> PyStr(<<"C1">>))))
       \/ /\ environ = EmptyMap
          /\ config_files = (<<"auth">> :> PyNone) @@
                            (<<"common">> :> (("username" :> PyList(<<PyStr(<<"u">>)>>)) @@
                                              ("password" :> PyList(<<PyStr(<<"p">>)>>))))

AuthNext ==
    \/ GetAuthInfo
    \/ SetGlobalToken
    \/ UpdateAuthInfo
    \/ ClearAuthCache
    \/ Tick

AuthSpec == AuthInit /\ [][AuthNext]_vars

----------------------------------------------------------------------------
(* Vocabulary of the properties.                                           *)

MethodSet == {METHODS[i] : i \in 1..Len(METHODS)}

\* the keys whose value is not a schema
PlainKeys == {"$ref", "$recursiveRef", "type", "description", "format",
              "example", "examples", "enum"}

\* a `$ref` at any depth of a schema
RECURSIVE ContainsRef(_)
ContainsRef(v) ==
    /\ IsMapping(v)
    /\ \/ Has(v, "$ref")
       \/ \E k \in (DOMAIN v) \ PlainKeys : ContainsRef(v[k])

\* the operations of a document, as <<path, method>>
OperationsOf(api) ==
    IF Has(api, "paths") /\ IsMapping(api["paths"])
    THEN {pm \in (DOMAIN api["paths"]) \X MethodSet :
              /\ IsMapping(api["paths"][pm[1]])
              /\ Has(api["paths"][pm[1]], pm[2])
              /\ IsMapping(api["paths"][pm[1]][pm[2]])}
    ELSE {}

\* the places of an operation that hold a schema: parameters, media types of
\* the request body (OpenAPI 3), responses and media types of responses
PlacesOf(api, path, method) ==
    LET operation == api["paths"][path][method]
        is3 == Has(api, "openapi")
        rb == IF Has(operation, "requestBody") THEN operation["requestBody"] ELSE EmptyMap
        rs == IF Has(operation, "responses") /\ IsMapping(operation["responses"])
              THEN operation["responses"] ELSE EmptyMap
        withContent(x) == IsMapping(x) /\ Has(x, "content") /\ IsMapping(x["content"])
    IN  {Site("param", path, method, i, "", "") :
             i \in IF Has(operation, "parameters")
                   THEN 1..Len(operation["parameters"]) ELSE {}}
        \cup {Site("body", path, method, 0, "", mt) :
             mt \in IF is3 /\ withContent(rb) THEN DOMAIN rb["content"] ELSE {}}
        \cup {Site("resp2", path, method, 0, st, "") :
             st \in {x \in DOMAIN rs : ~(is3 /\ withContent(rs[x]))}}
        \cup UNION {{Site("resp3", path, method, 0, st, mt) : mt \in DOMAIN rs[st]["content"]} :
             st \in {x \in DOMAIN rs : is3 /\ withContent(rs[x])}}

Places(api) == UNION {PlacesOf(api, pm[1], pm[2]) : pm \in OperationsOf(api)}

\* the places whose schema is a dict
SchemaPlaces(api) ==
    {s \in Places(api) :
         LET n == SiteNode(api, s) IN
         IsMapping(n) /\ Has(n, "schema") /\ IsMapping(n["schema"])}

\* the places whose schema is a reference
RefPlaces(api) == {s \in Places(api) : HasRefSchema(SiteNode(api, s)) = "yes"}

Returned == heap[returned]

----------------------------------------------------------------------------
(* C1: after _resolve_references on a normalised document, no `$ref` is    *)
(* left at any depth of the schema of a parameter, of a request-body media *)
(* type or of a response of the returned document.                         *)
C1_NoRefLeft ==
    (pc = "done" /\ normCount >= 1 /\ ~escaped)
        => \A s \in SchemaPlaces(Returned) : ~ContainsRef(SiteNode(Returned, s)["schema"])

(* C2: _resolve_references terminates after finitely many _resolve_ref     *)
(* calls, whatever the reference graph of the definitions is.  A call of   *)
(* _resolve_ref is determined by its reference and by the definitions map, *)
(* which no call changes: the calls are finitely many exactly when no      *)
(* reference is entered again while it is being expanded.                  *)
C2_Terminates ==
    \A i \in 1..Len(stack) : \A j \in 1..Len(stack) :
        i < j => stack[i].ref # stack[j].ref

----------------------------------------------------------------------------
(* The frame that has finished its loops, and the definition it expanded.  *)

AtExit == stack # <<>> /\ Top.phase = "exit"

Expanded == definitions[RefName(Top.ref)]

IsRefNode(x) == IsMapping(x) /\ Has(x, "$ref")

\* the properties of the expanded definition that are references
RefProps == IF Has(Expanded, "properties")
            THEN {p \in DOMAIN Expanded["properties"] : IsRefNode(Expanded["properties"][p])}
            ELSE {}

ItemsIsRef == Has(Expanded, "items") /\ IsRefNode(Expanded["items"])

IsSelfMarker(v) ==
    /\ IsMapping(v) /\ DOMAIN v = {"type", "description"}
    /\ v["type"] = "object" /\ v["description"] = "self-reference object"

IsFailureMarker(v) ==
    /\ IsMapping(v) /\ DOMAIN v = {"type", "description"}
    /\ v["type"] = "object" /\ v["description"] = "reference resolution failed"

Named(ref) == ref # <<>> /\ IsString(ref) /\ IsMapping(definitions)

Known(ref) == Named(ref) /\ RefName(ref) \in DOMAIN definitions

Unknown(ref) == Named(ref) /\ RefName(ref) \notin DOMAIN definitions

\* a definition without properties and items
IsLeaf(d) == IsMapping(d) /\ ~Has(d, "properties") /\ ~Has(d, "items")

\* the nested call for `target` made by the frame at exit returned v
NestedCallReturned(target, v) ==
    /\ \E e \in log : e.caller = Top.ref /\ e.callee = target /\ e.val = v /\ e.depth = Len(stack) + 1
    /\ (Known(target) /\ IsLeaf(definitions[RefName(target)])) => v = definitions[RefName(target)]

(* C3: when _resolve_ref expands a definition, a property or items whose   *)
(* `$ref` equals the reference being resolved becomes the self-reference   *)
(* placeholder and no call is made for it; a property or items with        *)
(* another target becomes what the call for that target returned.          *)
C3_SelfReferencePlaceholder ==
    /\ \A i \in 1..(Len(stack) - 1) : stack[i + 1].ref # stack[i].ref
    /\ AtExit =>
         /\ \A p \in RefProps :
                LET target == Expanded["properties"][p]["$ref"]
                    v == Top.result["properties"][p]
                IN  IF target = Top.ref THEN IsSelfMarker(v)
                    ELSE NestedCallReturned(target, v)
         /\ ItemsIsRef =>
                LET target == Expanded["items"]["$ref"]
                    v == Top.result["items"]
                IN  IF target = Top.ref THEN IsSelfMarker(v)
                    ELSE NestedCallReturned(target, v)

C3_Witness ==
    /\ AtExit
    /\ \E p \in RefProps : \E q \in RefProps :
           /\ Expanded["properties"][p]["$ref"] = Top.ref
           /\ Expanded["properties"][q]["$ref"] # Top.ref

(* C4: _resolve_references never changes its argument, whether it returns  *)
(* the copy or falls back, and a later change of the returned copy does    *)
(* not change the argument.                                                *)
C4_ArgumentUnchanged ==
    (pc \in {"done", "mutated"}) => heap["doc"] = doc0

C4_Witness == pc = "mutated" /\ visited # {} /\ returned = "copy"

(* C5: a reference to a name that is not a key of the definitions map      *)
(* resolves to the empty schema, at a call site of the traversal and as a  *)
(* property or items of a definition.                                      *)
C5_UnknownIsEmpty ==
    /\ \A e \in log : Unknown(e.callee) => e.val = EmptyMap
    /\ \A s \in visited :
           Unknown(SiteNode(doc0, s)["schema"]["$ref"])
               => SiteNode(heap[apiObj], s)["schema"] = EmptyMap
    /\ AtExit =>
         /\ \A p \in RefProps :
                Unknown(Expanded["properties"][p]["$ref"])
                    => Top.result["properties"][p] = EmptyMap
         /\ (ItemsIsRef /\ Unknown(Expanded["items"]["$ref"]))
                => Top.result["items"] = EmptyMap

C5_Witness ==
    /\ pc = "done"
    /\ \E e \in log : Unknown(e.callee) /\ e.depth = 1
    /\ \E e \in log : Unknown(e.callee) /\ e.depth > 1

\* the expansion of the definition raises
Broken(d) ==
    \/ ~IsMapping(d)
    \/ /\ Has(d, "properties")
       /\ \/ ~IsMapping(d["properties"])
          \/ \E p \in DOMAIN d["properties"] :
                 Truthy(d["properties"][p]) /\ ~IsMapping(d["properties"][p])
    \/ Has(d, "items") /\ ~IsMapping(d["items"])

BrokenTarget(ref) == ~IsString(ref) \/ (Known(ref) /\ Broken(definitions[RefName(ref)]))

\* the properties of the frame at exit whose target cannot be expanded
BrokenProps ==
    {p \in RefProps : LET t == Expanded["properties"][p]["$ref"] IN
                      t # Top.ref /\ BrokenTarget(t)}

(* C6: an error while resolving a reference nested in a definition leaves  *)
(* a placeholder of type object with a marker at that node, and the        *)
(* enclosing definition is returned with its other content.                *)
C6_NestedErrorDegrades ==
    /\ \A e \in log : (e.depth > 1 /\ BrokenTarget(e.callee)) => IsFailureMarker(e.val)
    /\ AtExit =>
         /\ \A p \in BrokenProps : IsFailureMarker(Top.result["properties"][p])
         /\ (ItemsIsRef /\ Expanded["items"]["$ref"] # Top.ref
                /\ BrokenTarget(Expanded["items"]["$ref"]))
                => IsFailureMarker(Top.result["items"])
         /\ \A k \in (DOMAIN Expanded) \ {"properties", "items"} : Top.result[k] = Expanded[k]
         /\ Has(Expanded, "properties") =>
                /\ DOMAIN Top.result["properties"] = DOMAIN Expanded["properties"]
                /\ \A p \in (DOMAIN Expanded["properties"]) \ RefProps :
                       Top.result["properties"][p] = Expanded["properties"][p]

C6_Witness == AtExit /\ BrokenProps # {} /\ Len(stack) = 1

\* the request bodies of the document are dicts whose content, if any, is a dict
BodiesWellFormed(api) ==
    \A pm \in OperationsOf(api) :
        LET operation == api["paths"][pm[1]][pm[2]] IN
        Has(operation, "requestBody") =>
            /\ IsMapping(operation["requestBody"])
            /\ Has(operation["requestBody"], "content")
                   => IsMapping(operation["requestBody"]["content"])

(* C7: a parameter, a media type, a response or a property that cannot be  *)
(* processed does not keep its siblings from being resolved: every place   *)
(* whose schema is a reference is resolved in the returned document, and   *)
(* so is every property of an expanded definition that is a reference.     *)
C7_SiblingsResolved ==
    /\ (pc = "done" /\ ~escaped /\ BodiesWellFormed(doc0)) => RefPlaces(doc0) \subseteq visited
    /\ AtExit => \A p \in RefProps : ~IsRefNode(Top.result["properties"][p])

(* C8: when an error escapes the handling of the operations, the call      *)
(* returns the caller's document, which is as it was at the call.          *)
C8_FallbackReturnsOriginal ==
    (pc = "done" /\ escaped) => (returned = "doc" /\ heap[returned] = doc0)

C8_Witness == pc = "done" /\ escaped /\ visited # {}

(* C9: a second _normalize_swagger_document leaves the document as the     *)
(* first one left it.                                                      *)
C9_NormalizeIdempotent == normCount >= 2 => heap["doc"] = norm1

C9_Witness ==
    /\ normCount = 2 /\ pc = "ready"
    /\ \E pm \in OperationsOf(norm1) : norm1["paths"][pm[1]][pm[2]]["tags"] = <<DefaultTag>>

(* C10: after normalisation `paths` exists and the definitions map of the  *)
(* document's version is a dict: `definitions` for Swagger 2,              *)
(* `components.schemas` for OpenAPI 3.                                     *)
C10_DefinitionsMapExists ==
    normCount >= 1 =>
        /\ Has(norm1, "paths")
        /\ Has(norm1, "swagger") =>
               Has(norm1, "definitions") /\ IsMapping(norm1["definitions"])
        /\ Has(norm1, "openapi") =>
               /\ Has(norm1, "components") /\ IsMapping(norm1["components"])
               /\ Has(norm1["components"], "schemas")
               /\ IsMapping(norm1["components"]["schemas"])

----------------------------------------------------------------------------
(* parse_swagger_doc: the value parsed from the file, and its markers.     *)

Content == Load(file).val

HasMarker(v, key) == IsMapping(v) /\ Has(v, key)

MarkedMapping(v) == HasMarker(v, "swagger") \/ HasMarker(v, "openapi")

(* C11: a document returned by parse_swagger_doc carries exactly one of    *)
(* the markers `swagger` and `openapi`, and so did the parsed content it   *)
(* was made from.                                                          *)
C11_ExactlyOneMarker ==
    (pc = "done" /\ file # NoFile) =>
        /\ HasMarker(Returned, "swagger") # HasMarker(Returned, "openapi")
        /\ HasMarker(Content, "swagger") # HasMarker(Content, "openapi")

\* the operation as normalisation has to leave it
NormalizedOperation(before, after) ==
    /\ Has(after, "responses") /\ Has(after, "parameters") /\ Has(after, "tags")
    /\ after["tags"] # <<>>
    /\ IF Has(before, "tags") /\ before["tags"] # <<>>
       THEN after["tags"] = before["tags"]
       ELSE after["tags"] = <<"default-tag">>

(* C12: after normalisation every operation under a path item has          *)
(* `responses`, `parameters` and a non-empty `tags`: the default tag alone *)
(* when `tags` was absent or empty, the tags it had otherwise.             *)
C12_OperationsNormalized ==
    normCount >= 1 =>
        \A pm \in OperationsOf(Content) :
            /\ pm \in OperationsOf(norm1)
            /\ NormalizedOperation(Content["paths"][pm[1]][pm[2]],
                                   norm1["paths"][pm[1]][pm[2]])

C12_Witness ==
    /\ normCount = 1
    /\ \E pm \in OperationsOf(Content) : ~Has(Content["paths"][pm[1]][pm[2]], "tags")
    /\ \E pm \in OperationsOf(Content) : ~Has(Content["paths"][pm[1]][pm[2]], "responses")

(* C13: for a parsed value that is not a mapping with the key `swagger` or *)
(* `openapi`, parse_swagger_doc raises the schema error, and neither       *)
(* normalisation nor resolution is started.                                *)
C13_SchemaErrorForUnmarked ==
    (Load(file).ok /\ ~MarkedMapping(Content)) =>
        \/ pc \in {"file", "parsed"}
        \/ pc = "raised" /\ error = "schema"

(* C14: parse_swagger_doc raises only the format error and the schema      *)
(* error, and for a parsed mapping with a version marker it returns a      *)
(* document.                                                               *)
C14_OnlyFormatAndSchemaErrors ==
    /\ pc = "raised" => error \in {"format", "schema"}
    /\ (Load(file).ok /\ MarkedMapping(Content)) => pc # "raised"

----------------------------------------------------------------------------
(* _generate_example.                                                      *)

GenReturned == genPc = "returned"

(* C15: every top-level _generate_example call returns, whatever the       *)
(* references between the definitions are.                                 *)
C15_GenerateTerminates == (genPc = "running") ~> (genPc = "returned")

\* a call has returned over definitions that reference each other in a cycle,
\* and the cycle was cut by the marker
C15_Witness ==
    /\ GenReturned
    /\ \E e \in genLog : e.ref = RefTo("A") /\ {RefTo("A"), RefTo("B")} \subseteq e.chain

\* the top-level schema is an object whose properties p and q hold the same
\* reference, to a definition without references
SiblingReferences ==
    /\ IsMapping(genSchema) /\ Has(genSchema, "properties")
    /\ LET ps == genSchema["properties"] IN
       /\ IsMapping(ps) /\ {"p", "q"} \subseteq DOMAIN ps
       /\ IsRefNode(ps["p"]) /\ ps["q"] = ps["p"]
       /\ LET ref == ps["p"]["$ref"] IN
          /\ IsString(ref) /\ ref # <<>> /\ IsMapping(genDefinitions)
          /\ RefName(ref) \in DOMAIN genDefinitions
          /\ Truthy(genDefinitions[RefName(ref)])
          /\ ~ContainsRef(genDefinitions[RefName(ref)])

(* C16: the marker `{"$ref": ref}` of line 565 is returned only for a      *)
(* reference that a frame of the current call chain is expanding; a        *)
(* reference whose expansion has ended is expanded again, so two           *)
(* properties with the same reference get the same example.                *)
C16_MarkerOnlyForAncestor ==
    /\ \A e \in genLog : e.ref \in e.chain
    /\ (GenReturned /\ SiblingReferences) => genResult["p"] = genResult["q"]

(* C17: for a concrete schema with a literal `example`, _generate_example  *)
(* returns that literal, whatever the type of the schema is.               *)
C17_LiteralExampleReturned ==
    (GenReturned /\ IsMapping(genSchema) /\ ~Has(genSchema, "$ref")
         /\ Has(genSchema, "example"))
        => genResult = genSchema["example"]

(* C18: a second top-level call with the same arguments returns what the   *)
(* first returned and starts with no processed reference, and no step of   *)
(* a call changes the schema or the definitions.                           *)
C18_GenerateDeterministic ==
    /\ []((genCalls = 2 /\ GenReturned) => genResult = genFirst)
    /\ []((genCalls = 2 /\ genPc = "running" /\ Len(genStack) = 1 /\ GenTop.phase = "enter")
             => processed_refs = {})
    /\ [][genSchema' = genSchema /\ genDefinitions' = genDefinitions]_vars

C18_Witness ==
    /\ genCalls = 2 /\ GenReturned
    /\ processed_refs # {}
    /\ IsMapping(genResult) /\ Has(genResult, "p")

----------------------------------------------------------------------------
(* Resolution followed by example synthesis.                               *)

\* the responses of an OpenAPI-3 document whose media type has a reference to
\* a definition without references as its schema
ReferenceFreePlaces(api) ==
    IF ~(IsMapping(api) /\ Has(api, "openapi") /\ ~Has(api, "definitions")
         /\ Has(api, "components") /\ IsMapping(api["components"])
         /\ Has(api["components"], "schemas") /\ IsMapping(api["components"]["schemas"]))
    THEN {}
    ELSE {s \in RefPlaces(api) :
              /\ s.kind = "resp3"
              /\ LET ref == SiteNode(api, s)["schema"]["$ref"]
                     schemas == api["components"]["schemas"]
                 IN  /\ IsString(ref) /\ ref # <<>>
                     /\ RefName(ref) \in DOMAIN schemas
                     /\ IsMapping(schemas[RefName(ref)])
                     /\ ~ContainsRef(schemas[RefName(ref)])}

\* the definition the schema of the place refers to
Referenced(api, s) == api["components"]["schemas"][RefName(SiteNode(api, s)["schema"]["$ref"])]

\* the example of a property: its first `examples` entry, else its
\* `example`, else the default of its type
PropertyExample(prop) ==
    IF Has(prop, "examples") /\ prop["examples"] # <<>> THEN prop["examples"][1]
    ELSE IF Has(prop, "example") THEN prop["example"]
    ELSE IF prop["type"] = "string"
         THEN (IF Has(prop, "format") /\ prop["format"] = "date"
               THEN PyStr(<<"2", "0", "2", "3", "-", "0", "1", "-", "0", "1">>)
               ELSE PyStr(<<"s", "t", "r", "i", "n", "g">>))
    ELSE IF prop["type"] = "boolean" THEN PyNum("bool", 0)
    ELSE IF Has(prop, "format") /\ prop["format"] = "float" THEN PyNum("float", 0)
    ELSE PyNum("int", 0)

\* the document has one response, of the kind above
OneReferenceFreeResponse ==
    /\ ReferenceFreePlaces(Content) # {}
    /\ ReferenceFreePlaces(Content) = Places(Content)

(* C19: in an OpenAPI-3 document, a response media type whose schema is a  *)
(* reference to a definition without references has, after resolution,    *)
(* a schema equal to the definition, and the definitions are as they      *)
(* were; _generate_example on that schema gives each property its literal *)
(* example or else the default of its type, and for the `Item` document   *)
(* the object with id 0 and name "widget".                                 *)
C19_ResolvedThenExample ==
    /\ (pc = "done" /\ file # NoFile) =>
          \A s \in ReferenceFreePlaces(Content) :
              /\ returned = "copy"
              /\ SiteNode(Returned, s)["schema"] = Referenced(Content, s)
              /\ Returned["components"] = Content["components"]
              /\ heap["doc"]["components"] = Content["components"]
    /\ (GenReturned /\ file # NoFile /\ OneReferenceFreeResponse) =>
          LET definition == Referenced(Content, CHOOSE s \in Places(Content) : TRUE) IN
          /\ genSchema = definition
          /\ (Has(definition, "properties") /\ DOMAIN definition["properties"] # {}) =>
                 genResult = [p \in DOMAIN definition["properties"] |->
                                  PropertyExample(definition["properties"][p])]
          /\ Content = ItemDocument(Item) =>
                 genResult = ("id" :> PyNum("int", 0))
                             @@ ("name" :> PyStr(<<"w", "i", "d", "g", "e", "t">>))

C19_Witness == GenReturned /\ Content = ItemDocument(Item)

----------------------------------------------------------------------------
(* extract_paths: the summaries of the operations.                         *)

\* the document extract_paths was called on
Api == heap["doc"]

\* no path item, operation or parameter of the document makes a statement
\* of extract_paths raise: the truthy path items and operations are
\* mappings, the parameters are mappings, and a parameter without a type
\* has a mapping, or a falsy value, as its schema
Extractable(api) ==
    (IsMapping(api) /\ Has(api, "paths") /\ IsMapping(api["paths"])) =>
        \A path \in DOMAIN api["paths"] :
            LET item == api["paths"][path] IN
            Truthy(item) =>
                /\ IsMapping(item)
                /\ \A method \in DOMAIN item \cap {METHODS[k] : k \in 1..Len(METHODS)} :
                       LET operation == item[method] IN
                       Truthy(operation) =>
                           /\ IsMapping(operation)
                           /\ Has(operation, "parameters") =>
                                  \A i \in 1..Len(operation["parameters"]) :
                                      LET param == operation["parameters"][i] IN
                                      /\ IsMapping(param)
                                      /\ (~Has(param, "type") /\ Has(param, "schema")
                                              /\ Truthy(param["schema"]))
                                             => IsMapping(param["schema"])

\* the (path, method) pairs with a non-empty operation, by the order of the
\* paths in the document and then by the order of METHODS
OperationPairs(api) ==
    IF ~(IsMapping(api) /\ Has(api, "paths") /\ IsMapping(api["paths"])) THEN <<>>
    ELSE LET keys == Keys(api["paths"])
             m == Len(METHODS)
             all == [i \in 1..(Len(keys) * m) |->
                        <<keys[((i - 1) \div m) + 1], METHODS[((i - 1) % m) + 1]>>]
             Operated(pair) ==
                 LET item == api["paths"][pair[1]] IN
                 /\ Truthy(item)
                 /\ IsMapping(item)
                 /\ Has(item, pair[2])
                 /\ Truthy(item[pair[2]])
         IN  SelectSeq(all, Operated)

\* the request body of a summary is the one the operation calls for
RequestBodyAsStated(info, operation, is_openapi3) ==
    LET parameters == IF Has(operation, "parameters") THEN operation["parameters"] ELSE <<>>
        InBody(i) == Has(parameters[i], "in") /\ parameters[i]["in"] = "body"
    IN  IF is_openapi3
        THEN info.requestBody =
                 (IF Has(operation, "requestBody") THEN operation["requestBody"] ELSE PyNone)
        ELSE IF \A i \in 1..Len(parameters) : ~InBody(i)
        THEN info.requestBody = PyNone
        ELSE \E i \in 1..Len(parameters) :
                 /\ InBody(i)
                 /\ \A j \in 1..(i - 1) : ~InBody(j)
                 /\ info.requestBody # PyNone
                 /\ info.requestBody.description =
                        (IF Has(parameters[i], "description")
                         THEN parameters[i]["description"] ELSE "")
                 /\ info.requestBody.content["application/json"]["schema"] =
                        (IF Has(parameters[i], "schema")
                         THEN parameters[i]["schema"] ELSE EmptyMap)

\* every parameter summary carries a boolean `required`, false when the
\* parameter has none
RequiredAsStated(info, operation) ==
    LET parameters == IF Has(operation, "parameters") THEN operation["parameters"] ELSE <<>>
    IN  /\ Len(info.parameters) = Len(parameters)
        /\ \A i \in 1..Len(parameters) :
               /\ info.parameters[i].required
                      \in {("#py" :> "bool") @@ ("#n" :> 0), ("#py" :> "bool") @@ ("#n" :> 1)}
               /\ ~Has(parameters[i], "required")
                      => info.parameters[i].required = ("#py" :> "bool") @@ ("#n" :> 0)

\* one summary per pair of OperationPairs, in that order, each with the
\* request body and the parameters as stated
SummariesAsStated ==
    LET pairs == OperationPairs(Api) IN
    /\ Len(paths_info) = Len(pairs)
    /\ \A i \in 1..Len(pairs) :
           LET operation == Api["paths"][pairs[i][1]][pairs[i][2]] IN
           /\ paths_info[i].path = pairs[i][1]
           /\ paths_info[i].method = Upper(pairs[i][2])
           /\ RequestBodyAsStated(paths_info[i], operation, Has(Api, "openapi"))
           /\ RequiredAsStated(paths_info[i], operation)

\* C20 as stated: extract_paths returns exactly one summary per (path,
\* method) pair whose operation is non-empty, ordered by the document's path
\* order and within a path by the fixed method order; for a Swagger-2
\* document the requestBody is synthesized from the first parameter located
\* in body (null if there is none), for an OpenAPI-3 document it is the
\* operation's native requestBody; every parameter summary has a boolean
\* required defaulting to false.  It fails on a document with a path item,
\* an operation or a parameter that is not a mapping: the call returns the
\* empty list whatever the other operations are.
C20_SummaryPerOperation == pc = "extracted" => SummariesAsStated

\* What extract_paths does keep: the summaries are as stated for every
\* document on which no step of the extraction raises, and the result is
\* the empty list on every other document.
SummaryPerOperationUnlessRaised ==
    pc = "extracted" =>
        IF Extractable(Api) THEN SummariesAsStated ELSE paths_info = <<>>

\* a Swagger-2 document whose GET of /a has two body parameters, with a POST
\* of /a and a GET of /b after it: three summaries in order, the first with
\* the body synthesized from the first of the two body parameters
C20_Witness ==
    /\ pc = "extracted"
    /\ Has(Api, "swagger")
    /\ Extractable(Api)
    /\ Has(Api, "paths")
    /\ DOMAIN Api["paths"] = {"/a", "/b"}
    /\ IsMapping(Api["paths"]["/a"])
    /\ Has(Api["paths"]["/a"], "get")
    /\ Api["paths"]["/a"]["get"] = ("parameters" :> <<SecondBody, FirstBody>>)
    /\ Len(paths_info) = 3
    /\ <<paths_info[1].path, paths_info[1].method>> = <<"/a", "GET">>
    /\ <<paths_info[2].path, paths_info[2].method>> = <<"/a", "POST">>
    /\ <<paths_info[3].path, paths_info[3].method>> = <<"/b", "GET">>
    /\ paths_info[1].requestBody # PyNone
    /\ paths_info[1].requestBody.description = "second"
    /\ paths_info[3].requestBody = PyNone

----------------------------------------------------------------------------
(* _resolve_references: the map the names are looked up in.                *)

\* the value of `definitions` in the document the call was given
GivenDefinitions == IF Has(doc0, "definitions") THEN doc0["definitions"] ELSE EmptyMap

\* the `components.schemas` of the document the call was given
GivenSchemas ==
    IF Has(doc0, "components") /\ IsMapping(doc0["components"])
          /\ Has(doc0["components"], "schemas")
    THEN doc0["components"]["schemas"] ELSE EmptyMap

\* the choice of the map did not raise
Chosen == pc \in {"walk", "done"} /\ IsMapping(doc0) /\ ~ChooseDefinitions(doc0).raised

\* C21: the definitions map of _resolve_references is the document's
\* `definitions` when present and non-empty and otherwise `components.schemas`,
\* empty when neither exists; a name is looked up only in the chosen map, so
\* with a non-empty `definitions` a name defined only under
\* `components.schemas` resolves as unknown, to the empty mapping.
C21_DefinitionsSource ==
    Chosen =>
        /\ Truthy(GivenDefinitions) => definitions = GivenDefinitions
        /\ (~Truthy(GivenDefinitions) /\ Has(doc0, "components")) =>
               definitions = GivenSchemas
        /\ (~Has(doc0, "definitions") /\ ~Has(doc0, "components")) =>
               definitions = EmptyMap
        /\ (~Truthy(GivenDefinitions) /\ ~Has(doc0, "components")) =>
               ~Truthy(definitions)
        /\ \A e \in log :
               (IsString(e.callee) /\ e.callee # <<>> /\ IsMapping(GivenDefinitions)
                   /\ Truthy(GivenDefinitions)) =>
                   /\ RefName(e.callee) \notin DOMAIN GivenDefinitions => e.val = EmptyMap
                   /\ (RefName(e.callee) \in DOMAIN GivenDefinitions
                          /\ GivenDefinitions[RefName(e.callee)] = StringSchema) =>
                          e.val = StringSchema

\* a document with a non-empty `definitions` and a name that only
\* `components.schemas` defines, and the call for that name returned
C21_Witness ==
    /\ pc = "done"
    /\ Chosen
    /\ GivenDefinitions = ("A" :> StringSchema)
    /\ GivenSchemas = ("B" :> ArrayOf(StringSchema))
    /\ \E e \in log : e.callee = AltRefTo("B") /\ e.val = EmptyMap

----------------------------------------------------------------------------
(* _generate_example by the type of the node.                              *)

\* a returned top-level call whose schema is a concrete node of the type;
\* a node without `type` counts as an object
ReturnedFor(type) ==
    /\ GenReturned
    /\ IsMapping(genSchema) /\ Truthy(genSchema) /\ ~Has(genSchema, "$ref")
    /\ (IF Has(genSchema, "type") THEN genSchema["type"] ELSE "object") = type

\* the declared properties of the schema of the call
DeclaredProperties ==
    IF Has(genSchema, "properties") THEN genSchema["properties"] ELSE EmptyMap

\* C22: for a node of type object the result is a mapping with exactly the
\* declared property names; the value of a property is the first entry of
\* its non-empty `examples`, else its `example`, else the value synthesized
\* from the property schema, and it does not depend on the other
\* properties: properties with the same schema get the same value.  It
\* fails for two properties that hold the same reference.
C22_ObjectProperties ==
    (ReturnedFor("object") /\ IsMapping(DeclaredProperties)) =>
        /\ IsMapping(genResult)
        /\ DOMAIN genResult = DOMAIN DeclaredProperties
        /\ \A p \in DOMAIN DeclaredProperties :
               LET prop == DeclaredProperties[p] IN
               IsMapping(prop) =>
                   /\ (Has(prop, "examples") /\ prop["examples"] # <<>>)
                          => genResult[p] = prop["examples"][1]
                   /\ (~(Has(prop, "examples") /\ prop["examples"] # <<>>)
                          /\ Has(prop, "example"))
                          => genResult[p] = prop["example"]
        /\ \A p \in DOMAIN DeclaredProperties, q \in DOMAIN DeclaredProperties :
               DeclaredProperties[p] = DeclaredProperties[q] => genResult[p] = genResult[q]

\* the properties p and q hold the same reference to a definition without
\* references, and q gets the marker where p gets the example
C22_Witness ==
    /\ ReturnedFor("object")
    /\ SiblingReferences
    /\ IsMapping(genResult) /\ DOMAIN genResult = {"p", "q"}
    /\ genResult["q"] = RefNode(genSchema["properties"]["q"]["$ref"])
    /\ genResult["p"] # genResult["q"]

\* the schema has a literal of its own: a non-empty `examples` or an `example`
HasLiteral(node) == (Has(node, "examples") /\ node["examples"] # <<>>) \/ Has(node, "example")

\* that literal: the first of `examples` before `example`
LiteralOf(node) ==
    IF Has(node, "examples") /\ node["examples"] # <<>>
    THEN node["examples"][1] ELSE node["example"]

\* the node is a string, a number or a boolean schema
IsScalarNode(node) ==
    /\ IsMapping(node) /\ ~Has(node, "$ref") /\ Has(node, "type")
    /\ node["type"] \in {"string", "integer", "number", "boolean"}

\* the example of a string, number or boolean schema
ScalarExample(node) ==
    IF HasLiteral(node) THEN LiteralOf(node)
    ELSE IF node["type"] = "string"
    THEN (IF Has(node, "enum") /\ node["enum"] # <<>> THEN node["enum"][1]
          ELSE IF Has(node, "format") /\ node["format"] = "date-time"
          THEN ("#py" :> "str") @@ ("#chars" :> <<"2", "0", "2", "3", "-", "0", "1", "-", "0",
                                                  "1", "T", "0", "0", ":", "0", "0", ":",
                                                  "0", "0", "Z">>)
          ELSE IF Has(node, "format") /\ node["format"] = "date"
          THEN ("#py" :> "str") @@ ("#chars" :> <<"2", "0", "2", "3", "-", "0", "1", "-", "0", "1">>)
          ELSE ("#py" :> "str") @@ ("#chars" :> <<"s", "t", "r", "i", "n", "g">>))
    ELSE IF node["type"] = "boolean" THEN ("#py" :> "bool") @@ ("#n" :> 0)
    ELSE IF Has(node, "format") /\ node["format"] \in {"float", "double"}
    THEN ("#py" :> "float") @@ ("#n" :> 0)
    ELSE ("#py" :> "int") @@ ("#n" :> 0)

\* the `items` of the schema of the call, {} when there is none
ItemsOf == IF Has(genSchema, "items") THEN genSchema["items"] ELSE EmptyMap

\* no example is produced for the items: there is none, it is empty or not a
\* schema, or its type is none of the known ones
NoItemExample ==
    \/ ~IsMapping(ItemsOf)
    \/ ~Truthy(ItemsOf)
    \/ /\ ~Has(ItemsOf, "$ref") /\ Has(ItemsOf, "type")
       /\ ItemsOf["type"] \notin {"object", "array", "string", "integer", "number", "boolean"}

\* C23: for a node of type array the result is the literal of the schema
\* when it has one; otherwise it is a sequence of exactly one element, the
\* example synthesized from `items`, and the empty sequence exactly when no
\* item example is produced.
C23_ArrayExample ==
    ReturnedFor("array") =>
        IF HasLiteral(genSchema) THEN genResult = LiteralOf(genSchema)
        ELSE /\ IsPyList(genResult)
             /\ Len(genResult["#elems"]) <= 1
             /\ NoItemExample => genResult["#elems"] = <<>>
             /\ (~NoItemExample /\ ~Has(ItemsOf, "$ref")) =>
                    /\ Len(genResult["#elems"]) = 1
                    /\ IsScalarNode(ItemsOf) => genResult["#elems"][1] = ScalarExample(ItemsOf)
                    /\ (Has(ItemsOf, "type") /\ ItemsOf["type"] = "array")
                          => IF HasLiteral(ItemsOf)
                             THEN genResult["#elems"][1] = LiteralOf(ItemsOf)
                             ELSE IsPyList(genResult["#elems"][1])
             /\ (~NoItemExample /\ Has(ItemsOf, "$ref") /\ IsMapping(genDefinitions)
                    /\ IsString(ItemsOf["$ref"]) /\ ItemsOf["$ref"] # <<>>
                    /\ RefName(ItemsOf["$ref"]) \notin DOMAIN genDefinitions)
                   => genResult["#elems"] = <<("$ref" :> <<RefName(ItemsOf["$ref"])>>)>>

\* an array of dates without literal returned the one date
C23_Witness ==
    /\ ReturnedFor("array") /\ ~HasLiteral(genSchema)
    /\ ItemsOf = ("type" :> "string") @@ ("format" :> "date")
    /\ genResult = ("#py" :> "list") @@ ("#elems" :>
           <<("#py" :> "str") @@ ("#chars" :> <<"2", "0", "2", "3", "-", "0", "1", "-",
                                                "0", "1">>)>>)

\* C24: for a node of type string the result is, in this order, the literal
\* of the schema (the first of a non-empty `examples`, else `example`), the
\* first value of a non-empty `enum`, the fixed literal of the format
\* `date-time` or `date`, the placeholder "string"; so an `enum` wins over a
\* `format` and an `example` over an `enum`.
C24_StringPrecedence ==
    ReturnedFor("string") =>
        LET enumerated == Has(genSchema, "enum") /\ genSchema["enum"] # <<>>
            format == IF Has(genSchema, "format") THEN genSchema["format"] ELSE ""
        IN  /\ HasLiteral(genSchema) => genResult = LiteralOf(genSchema)
            /\ (~HasLiteral(genSchema) /\ enumerated) => genResult = genSchema["enum"][1]
            /\ (~HasLiteral(genSchema) /\ ~enumerated /\ format = "date-time") =>
                   genResult = ("#py" :> "str") @@ ("#chars" :>
                       <<"2", "0", "2", "3", "-", "0", "1", "-", "0", "1", "T",
                         "0", "0", ":", "0", "0", ":", "0", "0", "Z">>)
            /\ (~HasLiteral(genSchema) /\ ~enumerated /\ format = "date") =>
                   genResult = ("#py" :> "str") @@ ("#chars" :>
                       <<"2", "0", "2", "3", "-", "0", "1", "-", "0", "1">>)
            /\ (~HasLiteral(genSchema) /\ ~enumerated /\ format \notin {"date-time", "date"}) =>
                   genResult = ("#py" :> "str") @@ ("#chars" :> <<"s", "t", "r", "i", "n", "g">>)

\* a string with an `enum` and the format `date` returned the first value of
\* the `enum`
C24_Witness ==
    /\ ReturnedFor("string")
    /\ ~HasLiteral(genSchema)
    /\ Has(genSchema, "enum") /\ genSchema["enum"] # <<>>
    /\ Has(genSchema, "format") /\ genSchema["format"] = "date"
    /\ genResult = genSchema["enum"][1]

\* C25: for a node without literal the result is zero for the types integer
\* and number, the floating zero for the formats float and double and the
\* integer zero for every other or no format; false for the type boolean;
\* None for a type that is none of the known ones; and a node without
\* `type` is treated as an object: the result is a mapping with the
\* declared property names.
C25_DefaultsByType ==
    (GenReturned /\ IsMapping(genSchema) /\ Truthy(genSchema) /\ ~Has(genSchema, "$ref")
        /\ ~HasLiteral(genSchema)) =>
        IF ~Has(genSchema, "type")
        THEN (IsMapping(DeclaredProperties)
                 /\ \A p \in DOMAIN DeclaredProperties : IsMapping(DeclaredProperties[p])) =>
                 /\ IsMapping(genResult)
                 /\ DOMAIN genResult = DOMAIN DeclaredProperties
                 /\ \A p \in DOMAIN DeclaredProperties :
                        IsScalarNode(DeclaredProperties[p]) =>
                            genResult[p] = ScalarExample(DeclaredProperties[p])
        ELSE LET type == genSchema["type"]
                 format == IF Has(genSchema, "format") THEN genSchema["format"] ELSE ""
             IN  /\ (type \in {"integer", "number"} /\ format \in {"float", "double"}) =>
                        genResult = ("#py" :> "float") @@ ("#n" :> 0)
                 /\ (type \in {"integer", "number"} /\ format \notin {"float", "double"}) =>
                        genResult = ("#py" :> "int") @@ ("#n" :> 0)
                 /\ type = "boolean" => genResult = ("#py" :> "bool") @@ ("#n" :> 0)
                 /\ type \notin {"object", "array", "string", "integer", "number", "boolean"} =>
                        genResult = ("#py" :> "None")

\* a node without `type` and with two properties returned the mapping of
\* their examples
C25_Witness ==
    /\ GenReturned
    /\ IsMapping(genSchema) /\ ~Has(genSchema, "type") /\ ~HasLiteral(genSchema)
    /\ IsMapping(DeclaredProperties) /\ DOMAIN DeclaredProperties = {"p", "q"}
    /\ genResult = ("p" :> genSchema["properties"]["p"]["example"])
                    @@ ("q" :> (("#py" :> "bool") @@ ("#n" :> 0)))

----------------------------------------------------------------------------
(* PluginManager: the three registries.                                    *)

\* the plugin object is the one stored in `plugins` under its name
Current(q) == PluginName[q] \in DOMAIN plugins /\ plugins[PluginName[q]] = q

\* the positions of the plugin object in the list
PositionsOf(q, list) == {i \in 1..Len(list) : list[i] = q}

\* the list of a key of a registry, empty when the key is missing
ListOf(registry, key) == IF key \in DOMAIN registry THEN registry[key] ELSE <<>>

\* C26: after any register_plugin and unregister_plugin calls a plugin
\* object is listed in plugins_by_type[t] or hook_plugins[h] iff it is the
\* object stored in `plugins` under its name (and t is its type, h one of
\* its hooks), and it is listed at most once; execute_hook runs no replaced
\* plugin.  It fails when a registered name is registered again: the
\* replaced object stays in the lists.
C26_RegistriesAgree ==
    /\ \A q \in PluginObjects :
          /\ \A t \in {"hook", "middleware"} :
                /\ Cardinality(PositionsOf(q, ListOf(plugins_by_type, t))) <= 1
                /\ PositionsOf(q, ListOf(plugins_by_type, t)) # {}
                      <=> (Current(q) /\ PluginTypeOf[q] = t)
          /\ \A h \in PluginHooks :
                /\ Cardinality(PositionsOf(q, ListOf(hook_plugins, h))) <= 1
                /\ PositionsOf(q, ListOf(hook_plugins, h)) # {}
                      <=> (Current(q) /\ \E i \in 1..Len(SupportedHooks[q]) :
                                             SupportedHooks[q][i] = h)
    /\ \A i \in 1..Len(executed.plugins) : Current(executed.plugins[i])

\* p1 was replaced by p2 under the name "a", and execute_hook ran both
C26_Witness ==
    /\ plugins = ("a" :> "p2")
    /\ executed = [hook |-> "before_request", plugins |-> <<"p1", "p2">>]

----------------------------------------------------------------------------
(* RequestsClient.send: attempts and hooks.                                *)

\* the positions of the event in the trace
At(event) == {i \in 1..Len(trace) : trace[i] = event}

\* the calls of the transport
Invocations == At("request_ok") \cup At("request_failed")

\* C27: in send the transport is invoked at most retry_count+1 times and
\* never again once an attempt has returned a response; the BEFORE_REQUEST
\* hooks run exactly once, before the first attempt; the AFTER_REQUEST hooks
\* run at most once and only after the attempt whose response is returned;
\* the ON_ERROR hooks run exactly once and only when all retry_count+1
\* attempts failed, and exactly in that case send raises.
C27_SendProtocol ==
    /\ Cardinality(Invocations) <= retry0 + 1
    /\ clientPc = "loop" => retry_count = retry0
    /\ \A i \in At("request_ok") : \A j \in Invocations : j <= i
    /\ trace # <<>> => At("before_request") = {1}
    /\ Cardinality(At("after_request")) <= 1
    /\ \A i \in At("after_request") :
          /\ i > 1 /\ trace[i - 1] = "request_ok"
          /\ clientPc = "returned" /\ i = Len(trace)
          /\ resp = [send |-> sends, attempt |-> Cardinality(At("request_failed"))]
    /\ clientPc = "returned" => Cardinality(At("after_request")) = 1
    /\ Cardinality(At("on_error")) <= 1
    /\ At("on_error") # {} <=> clientPc = "raised"
    /\ At("on_error") # {} <=>
          (clientPc # "loop" /\ trace # <<>>
              /\ Cardinality(At("request_failed")) = retry0 + 1)
    /\ \A i \in At("on_error") : i = Len(trace) /\ At("request_ok") = {}

\* a second send, with two retries, whose third attempt returned a response
\* after the first send had failed
C27_Witness ==
    /\ retry0 = 2 /\ sends = 2
    /\ clientPc = "returned"
    /\ trace = <<"before_request", "request_failed", "request_failed",
                 "request_ok", "after_request">>
    /\ resp = [send |-> 2, attempt |-> 2]
    /\ executed = [hook |-> "after_request", plugins |-> <<"p3">>]

----------------------------------------------------------------------------
(* ConfigManager.get_config: the default of the call.                      *)

\* C28: get_config(section, key, default) returns the default passed to
\* that very call whenever neither an environment variable nor the config
\* file provides a value, regardless of earlier get_config calls for the
\* same section and key made with a different default.  (A value that
\* set_config stored since the cache was last cleared is left aside.)
C28_DefaultOfTheCall ==
    (configCall.called /\ ~configCall.env /\ ~configCall.file /\ ~configCall.set)
        => configCall.value = configCall.default

\* what does hold: the default of the call is returned when, besides, the
\* cache has no entry for the cache key
DefaultWhenUncached ==
    (configCall.called /\ ~configCall.env /\ ~configCall.file /\ ~configCall.cached)
        => configCall.value = configCall.default

\* get_config("http", "timeout", 10) returned the 5 that an earlier call
\* had passed as its default
C28_Witness ==
    /\ environ = EmptyMap /\ config_files = EmptyMap /\ config_set = {}
    /\ configCall = [called |-> TRUE, section |-> <<"http">>,
                     key |-> PyStr(<<"timeout">>), default |-> PyNum("int", 10),
                     value |-> PyNum("int", 5), env |-> FALSE, file |-> FALSE,
                     set |-> FALSE, cached |-> TRUE]
    /\ config_cache = (<<"http", ".", "timeout">> :> PyNum("int", 5))

----------------------------------------------------------------------------
(* AuthManager: the global token and the call BaseApi._setup_auth makes.   *)

\* the last call is get_auth_info(service, auth_type) and the call before it
\* is set_global_token(service, token) without expiry
AfterGlobalToken(auth_type) ==
    /\ authCall.op = "get_auth_info"
    /\ authCall.auth_type = auth_type
    /\ authPrev.op = "set_global_token"
    /\ authPrev.service_name = authCall.service_name
    /\ authPrev.expires_in = ("#py" :> "None")

\* C29: after set_global_token(service, token) without expiry, a following
\* get_auth_info(service, AuthType.BEARER), the call BaseApi._setup_auth
\* makes, returns auth info whose `token` is that token, served from the
\* cache without loading configuration or attempting a login.
C29_GlobalTokenServed ==
    AfterGlobalToken(("#py" :> "AuthType") @@ ("name" :> "BEARER") @@ ("value" :> "bearer"))
        => /\ "token" \in DOMAIN authCall.result
           /\ authCall.result["token"] = authPrev.token
           /\ ~authCall.loaded
           /\ ~authCall.login

\* set_global_token(svc, T1), then get_auth_info(svc, AuthType.BEARER) in a
\* process without configuration: the configuration was loaded, a login was
\* tried, and the auth info returned is empty
C29_Witness ==
    /\ environ = EmptyMap /\ config_files = EmptyMap
    /\ authPrev = [NoAuthCall EXCEPT !.op = "set_global_token", !.service_name = <<"svc">>,
                                     !.token = PyStr(<<"T1">>)]
    /\ authCall = [NoAuthCall EXCEPT !.op = "get_auth_info", !.service_name = <<"svc">>,
                                     !.auth_type = BEARER, !.loaded = TRUE, !.login = TRUE]
    /\ auth_cache = (<<"svc", "_", "bearer">> :> ("token" :> PyStr(<<"T1">>))) @@
                    (<<"svc", "_", "custom">> :> ("token" :> PyStr(<<"T1">>)))
    /\ config_cache = (<<"auth">> :> EmptyMap)

----------------------------------------------------------------------------
(* _resolve_ref: the temporary mark.                                       *)

\* the key `$recursiveRef` at any depth of a schema or of a map of schemas
RECURSIVE HoldsMark(_)
HoldsMark(v) ==
    /\ IsMapping(v)
    /\ \/ "$recursiveRef" \in DOMAIN v
       \/ \E k \in (DOMAIN v) \ PlainKeys : HoldsMark(v[k])

\* the definitions map _resolve_references chose from the document it was
\* given: `definitions`, or `components.schemas`
InitialDefinitions ==
    IF Truthy(GivenDefinitions) \/ ~Has(doc0, "components") THEN GivenDefinitions
    ELSE GivenSchemas

\* C30: the temporary `$recursiveRef` marker that _resolve_ref writes while
\* expanding a definition is never visible outside the call: for definitions
\* that do not contain that key in the input, after any sequence of
\* _resolve_ref calls the definitions map equals its initial value and no
\* returned schema contains the key.
C30_MarkInvisible ==
    (Chosen /\ ~HoldsMark(InitialDefinitions)) =>
        /\ definitions = InitialDefinitions
        /\ \A k \in {"definitions", "components"} :
               Has(doc0, k) => (Has(heap[apiObj], k) /\ heap[apiObj][k] = doc0[k])
        /\ \A e \in log : ~HoldsMark(e.val)

\* the definitions stay as they are whatever they hold
DefinitionsKept == Chosen => definitions = InitialDefinitions

\* the calls for A and, inside it, for B have returned: B was expanded into
\* the property p of A, and neither schema holds the key
C30_Witness ==
    /\ pc = "done"
    /\ definitions = ("A" :> (("type" :> "object") @@
                               ("properties" :> ("p" :> ("$ref" :> <<"#", "definitions", "B">>)))))
                     @@ ("B" :> ("type" :> "string"))
    /\ \E e \in log : /\ e.depth = 2 /\ e.callee = <<"#", "definitions", "B">>
                      /\ e.val = ("type" :> "string")
    /\ \E e \in log : /\ e.depth = 1 /\ e.callee = <<"#", "definitions", "A">>
                      /\ e.val = (("type" :> "object") @@
                                  ("properties" :> ("p" :> ("type" :> "string"))))
====
